---- MODULE Spec2Model ----
(***************************************************************************)
(* Epidemiological spread analysis of the hospital API                     *)
(* (services.PropagacionService and handlers.PropagacionHandler).          *)
(*                                                                         *)
(* Conventions                                                             *)
(*  - A calendar date is an integer day number.  An instant (time.Time) is *)
(*    a pair <<dia, tod>>, tod = 0 being exactly midnight and tod > 0 a    *)
(*    later instant of the same day.                                       *)
(*  - A float64 is an exact rational <<n, d>> with d > 0, in lowest terms. *)
(*  - A distance is a whole number of metres.                              *)
(*  - The table historial_clinico is a bag of rows: a function from the    *)
(*    rows present to their multiplicity.                                  *)
(***************************************************************************)
EXTENDS Integers, Sequences, FiniteSets, TLC

VARIABLES historial, densidadPoblacionalSantaCruz, respuesta, locales,
          invocaciones

vars == <<historial, densidadPoblacionalSantaCruz, respuesta, locales,
          invocaciones>>

-----------------------------------------------------------------------------
(* Bounds of the model *)

\* entries of a list of affected districts given to calcularRutasPropagacion
MaxAfectados == 3

\* first case dates of those entries
MaxFechaRuta == 3

\* (date, district) groups of a sparse initial table
MaxGrupos == 2
\* rows of the one larger group of a sparse initial table
MaxCasosCelda == 5
\* length in days of the run of consecutive dates of a dense initial table
DiasDensos == 8

-----------------------------------------------------------------------------
(* float64 arithmetic, as exact rationals *)

RECURSIVE GCD(_, _)
GCD(a, b) == IF b = 0 THEN a ELSE GCD(b, a % b)

Abs(x) == IF x < 0 THEN -x ELSE x

Rat(n, d) ==
  LET g == GCD(Abs(n), Abs(d))
      s == IF d < 0 THEN -1 ELSE 1
  IN  <<(s * n) \div g, (s * d) \div g>>

RatInt(n) == <<n, 1>>

RatAdd(p, q) ==
  LET g == GCD(p[2], q[2])
      l == (p[2] \div g) * q[2]
  IN  Rat(p[1] * (l \div p[2]) + q[1] * (l \div q[2]), l)

RatMul(p, q) ==
  LET a == Rat(p[1], q[2])
      b == Rat(q[1], p[2])
  IN  Rat(a[1] * b[1], a[2] * b[2])

RatDiv(p, q) == RatMul(p, Rat(q[2], q[1]))

RatLT(p, q) ==
  LET g == GCD(p[2], q[2])
  IN  p[1] * (q[2] \div g) < q[1] * (p[2] \div g)

RatLE(p, q) == ~RatLT(q, p)

\* int(x): truncation toward zero
RatTrunc(p) ==
  IF p[1] >= 0 THEN p[1] \div p[2] ELSE -((-p[1]) \div p[2])

\* math.Round(x): nearest integer, halves away from zero
RatRound(p) ==
  IF p[1] >= 0 THEN (2 * p[1] + p[2]) \div (2 * p[2])
  ELSE -((2 * (-p[1]) + p[2]) \div (2 * p[2]))

-----------------------------------------------------------------------------
(* Sequences *)

RECURSIVE SumSeq(_)
SumSeq(s) == IF s = <<>> THEN 0 ELSE Head(s) + SumSeq(Tail(s))

Rango(s) == {s[i] : i \in 1..Len(s)}

\* the positions of s visited from the o-th on, wrapping around
Rotar(s, o) ==
  IF Len(s) = 0 THEN s
  ELSE [i \in 1..Len(s) |-> s[((i - 1 + o) % Len(s)) + 1]]

\* insertionSortLessFunc, which is what sort.Slice runs on a slice of at most
\* 12 elements, for a less function that compares one integer key:
\* less(a, b) == a.k < b.k.  The elements are pairs [k, e].  Insertar moves
\* x left while less(x, previous) holds.
RECURSIVE Insertar(_, _)
Insertar(s, x) ==
  IF s = <<>> THEN <<x>>
  ELSE IF x.k < s[Len(s)].k
       THEN Append(Insertar(SubSeq(s, 1, Len(s) - 1), x), s[Len(s)])
       ELSE Append(s, x)

RECURSIVE InsertionSort(_)
InsertionSort(s) ==
  IF Len(s) <= 1 THEN s
  ELSE Insertar(InsertionSort(SubSeq(s, 1, Len(s) - 1)), s[Len(s)])

\* sort.Slice(s, less) with less(i, j) == claves[i] < claves[j], claves[i]
\* being the key of s[i]
SortSlice(s, claves) ==
  LET t == InsertionSort([i \in 1..Len(s) |-> [k |-> claves[i], e |-> s[i]]])
  IN  [i \in 1..Len(s) |-> t[i].e]

-----------------------------------------------------------------------------
(* Reference data *)

\* densidadPoblacionalSantaCruz as the package initialises it; AreaKm2 is
\* kept in tenths of a km2.  Claves is the order of the map literal.
Claves ==
  <<"Equipetrol", "Norte", "Plan Tres Mil", "Villa 1ro de Mayo",
    "Sur", "Oeste", "Este", "Centro">>

RegistroInicial ==
  [d \in Rango(Claves) |->
     CASE d = "Equipetrol" ->
            [Habitantes |-> 85000, AreaKm2 |-> 125, Densidad |-> 6800,
             Conectividad |-> <<"Norte", "Centro", "Sur">>,
             TipoZona |-> "Residencial-Comercial"]
       [] d = "Norte" ->
            [Habitantes |-> 320000, AreaKm2 |-> 458, Densidad |-> 6986,
             Conectividad |-> <<"Equipetrol", "Plan Tres Mil", "Este">>,
             TipoZona |-> "Residencial-Popular"]
       [] d = "Plan Tres Mil" ->
            [Habitantes |-> 180000, AreaKm2 |-> 223, Densidad |-> 8072,
             Conectividad |-> <<"Norte", "Sur", "Este">>,
             TipoZona |-> "Popular-Alta Densidad"]
       [] d = "Villa 1ro de Mayo" ->
            [Habitantes |-> 95000, AreaKm2 |-> 187, Densidad |-> 5080,
             Conectividad |-> <<"Oeste", "Centro">>,
             TipoZona |-> "Residencial"]
       [] d = "Sur" ->
            [Habitantes |-> 125000, AreaKm2 |-> 284, Densidad |-> 4401,
             Conectividad |-> <<"Equipetrol", "Plan Tres Mil", "Centro">>,
             TipoZona |-> "Residencial-Comercial"]
       [] d = "Oeste" ->
            [Habitantes |-> 75000, AreaKm2 |-> 352, Densidad |-> 2131,
             Conectividad |-> <<"Villa 1ro de Mayo", "Centro">>,
             TipoZona |-> "Residencial-Periferico"]
       [] d = "Este" ->
            [Habitantes |-> 60000, AreaKm2 |-> 421, Densidad |-> 1425,
             Conectividad |-> <<"Norte", "Plan Tres Mil">>,
             TipoZona |-> "Periferico-Rural"]
       [] d = "Centro" ->
            [Habitantes |-> 45000, AreaKm2 |-> 82, Densidad |-> 5488,
             Conectividad |-> <<"Equipetrol", "Sur", "Oeste", "Villa 1ro de Mayo">>,
             TipoZona |-> "Comercial-Historico"]]

\* range over a map of at most 8 entries (one bucket): the runtime starts at
\* a random slot and wraps around; keys is the insertion order, offset the
\* entry the iteration starts at
MapRange(keys, offset) == Rotar(keys, offset)

Offsets(keys) == 0..(IF Len(keys) = 0 THEN 0 ELSE Len(keys) - 1)

\* collation rank of the district names (ORDER BY ... distrito), byte by byte
OrdenDistrito ==
  <<"Centro", "Equipetrol", "Este", "Norte", "Oeste", "Plan Tres Mil",
    "Sur", "Villa 1ro de Mayo", "Zentro", "norte">>

RangoDistrito(d) == CHOOSE i \in 1..Len(OrdenDistrito) : OrdenDistrito[i] = d

\* LOWER(text)
Lower(s) ==
  CASE s \in {"Dengue", "DENGUE", "dengue"} -> "dengue"
    [] s \in {"Zika", "ZIKA", "zika"} -> "zika"
    [] OTHER -> s

-----------------------------------------------------------------------------
(* Instants *)

InstLE(a, b) == a[1] < b[1] \/ (a[1] = b[1] /\ a[2] <= b[2])

\* t.AddDate(0, 0, n): the same time of day, n days away
AddDate(t, n) == <<t[1] + n, t[2]>>

\* the instant a value of a date column stands for in a comparison
Medianoche(fecha) == <<fecha, 0>>

-----------------------------------------------------------------------------
(* PropagacionService.obtenerCasosTemporales: the SQL query *)

RECURSIVE SumaFilas(_, _)
SumaFilas(tabla, filas) ==
  IF filas = {} THEN 0
  ELSE LET r == CHOOSE x \in filas : TRUE
       IN  tabla[r] + SumaFilas(tabla, filas \ {r})

\* WHERE LOWER(enfermedad) = LOWER(?) AND consultation_date BETWEEN ? AND ?
\* the mutant of FilasFiltradas that compares the disease as it is written
FilasFiltradasExactas(tabla, enfermedad, fechaInicio, fechaFin) ==
  {r \in DOMAIN tabla :
     /\ r.enfermedad = enfermedad
     /\ InstLE(fechaInicio, Medianoche(r.fecha))
     /\ InstLE(Medianoche(r.fecha), fechaFin)}

FilasFiltradas(tabla, enfermedad, fechaInicio, fechaFin) ==
  {r \in DOMAIN tabla :
     /\ Lower(r.enfermedad) = Lower(enfermedad)
     /\ InstLE(fechaInicio, Medianoche(r.fecha))
     /\ InstLE(Medianoche(r.fecha), fechaFin)}

\* ORDER BY fecha ASC, distrito
RECURSIVE OrdenarGrupos(_)
OrdenarGrupos(grupos) ==
  IF grupos = {} THEN <<>>
  ELSE LET g == CHOOSE x \in grupos : \A y \in grupos :
                  \/ x[1] < y[1]
                  \/ (x[1] = y[1] /\ RangoDistrito(x[2]) <= RangoDistrito(y[2]))
       IN  <<g>> \o OrdenarGrupos(grupos \ {g})

\* the mutant of obtenerCasosTemporales that counts equal rows once
obtenerCasosTemporalesDistintas(tabla, enfermedad, fechaInicio, fechaFin) ==
  LET filas  == FilasFiltradas(tabla, enfermedad, fechaInicio, fechaFin)
      grupos == OrdenarGrupos({<<r.fecha, r.distrito>> : r \in filas})
      DeGrupo(g) == {r \in filas : r.fecha = g[1] /\ r.distrito = g[2]}
  IN  [i \in 1..Len(grupos) |->
         [Fecha            |-> grupos[i][1],
          Distrito         |-> grupos[i][2],
          TotalCasos       |-> Cardinality(DeGrupo(grupos[i])),
          CasosContagiosos |->
            Cardinality({r \in DeGrupo(grupos[i]) : r.contagioso})]]

obtenerCasosTemporales(tabla, enfermedad, fechaInicio, fechaFin) ==
  LET filas  == FilasFiltradas(tabla, enfermedad, fechaInicio, fechaFin)
      \* GROUP BY consultation_date::date, patient_district
      grupos == OrdenarGrupos({<<r.fecha, r.distrito>> : r \in filas})
      DeGrupo(g) == {r \in filas : r.fecha = g[1] /\ r.distrito = g[2]}
  IN  [i \in 1..Len(grupos) |->
         [Fecha            |-> grupos[i][1],
          Distrito         |-> grupos[i][2],
          TotalCasos       |-> SumaFilas(tabla, DeGrupo(grupos[i])),
          CasosContagiosos |->
            SumaFilas(tabla, {r \in DeGrupo(grupos[i]) : r.contagioso})]]

-----------------------------------------------------------------------------
(* PropagacionService.calcularRiesgoExpansion *)

\* the mutant of NivelDeScore for which a score of exactly 10 is not yet high
NivelDeScoreMasDe10(score) ==
  IF RatLE(RatInt(15), score) THEN "CRITICO"
  ELSE IF RatLT(RatInt(10), score) THEN "ALTO"
  ELSE IF RatLE(RatInt(5), score) THEN "MEDIO"
  ELSE "BAJO"

\* the switch over score
NivelDeScore(score) ==
  IF RatLE(RatInt(15), score) THEN "CRITICO"
  ELSE IF RatLE(RatInt(10), score) THEN "ALTO"
  ELSE IF RatLE(RatInt(5), score) THEN "MEDIO"
  ELSE "BAJO"

calcularRiesgoExpansion(densidad, velocidad) ==
  NivelDeScore(RatAdd(Rat(densidad, 1000), RatMul(velocidad, RatInt(2))))

-----------------------------------------------------------------------------
(* PropagacionService.analizarDistritosAfectados *)

\* the mutant of ActualizarEntrada that never moves PrimerCaso back
ActualizarEntradaSinPrimerCaso(d, caso) ==
  [d EXCEPT
     !.TotalCasos = d.TotalCasos + caso.TotalCasos,
     !.UltimoCaso = IF caso.Fecha > d.UltimoCaso
                    THEN caso.Fecha ELSE d.UltimoCaso]

\* the mutant of ActualizarEntrada that counts the first aggregate of the
\* district only
ActualizarEntradaSinSumar(d, caso) ==
  [d EXCEPT
     !.UltimoCaso = IF caso.Fecha > d.UltimoCaso
                    THEN caso.Fecha ELSE d.UltimoCaso,
     !.PrimerCaso = IF caso.Fecha < d.PrimerCaso
                    THEN caso.Fecha ELSE d.PrimerCaso]

\* the branch of the loop body for a district that has its entry d
ActualizarEntrada(d, caso) ==
  [d EXCEPT
     !.TotalCasos = d.TotalCasos + caso.TotalCasos,
     !.UltimoCaso = IF caso.Fecha > d.UltimoCaso
                    THEN caso.Fecha ELSE d.UltimoCaso,
     !.PrimerCaso = IF caso.Fecha < d.PrimerCaso
                    THEN caso.Fecha ELSE d.PrimerCaso]

\* the loop over casos: distritoMap as the sequence of its entries in
\* insertion order
RECURSIVE AgruparPorDistrito(_, _, _)
AgruparPorDistrito(casos, reg, mapa) ==
  IF casos = <<>> THEN mapa
  ELSE
    LET caso == Head(casos)
        pos  == {i \in 1..Len(mapa) : mapa[i].Distrito = caso.Distrito}
    IN  IF pos # {}
        THEN LET i == CHOOSE x \in pos : TRUE
             IN  AgruparPorDistrito(Tail(casos), reg,
                   [mapa EXCEPT ![i] = ActualizarEntrada(mapa[i], caso)])
        ELSE AgruparPorDistrito(Tail(casos), reg,
               Append(mapa,
                 [Distrito        |-> caso.Distrito,
                  PrimerCaso      |-> caso.Fecha,
                  UltimoCaso      |-> caso.Fecha,
                  TotalCasos      |-> caso.TotalCasos,
                  DensidadHab     |-> IF caso.Distrito \in DOMAIN reg
                                      THEN reg[caso.Distrito].Densidad ELSE 0,
                  VelocidadLocal  |-> RatInt(0),
                  RiesgoExpansion |-> ""]))

\* the mutant of VelocidadLocalDe that counts the days between the first
\* case and the last
VelocidadLocalDeSinUno(distrito) ==
  LET dias == distrito.UltimoCaso - distrito.PrimerCaso
  IN  IF dias > 0 THEN Rat(distrito.TotalCasos, dias)
      ELSE distrito.VelocidadLocal

\* distrito.VelocidadLocal after the first statements of the loop body
VelocidadLocalDe(distrito) ==
  LET dias == (distrito.UltimoCaso - distrito.PrimerCaso) + 1
  IN  IF dias > 0 THEN Rat(distrito.TotalCasos, dias)
      ELSE distrito.VelocidadLocal

\* the mutant of ConRiesgo that rates a district of density 0 as one of 5000
\* inhabitants per km2
ConRiesgoDensidadMedia(distrito, vel) ==
  [distrito EXCEPT
     !.VelocidadLocal  = vel,
     !.RiesgoExpansion =
       calcularRiesgoExpansion(IF distrito.DensidadHab = 0 THEN 5000
                               ELSE distrito.DensidadHab, vel)]

\* the entry as the loop body leaves it, vel being its VelocidadLocal
ConRiesgo(distrito, vel) ==
  [distrito EXCEPT
     !.VelocidadLocal  = vel,
     !.RiesgoExpansion = calcularRiesgoExpansion(distrito.DensidadHab, vel)]

\* the body of the loop over distritoMap
ConVelocidadLocal(distrito) == ConRiesgo(distrito, VelocidadLocalDe(distrito))

MenosTotalCasos(d) == -d.TotalCasos

\* sort.Slice(distritos, ...) by TotalCasos descending
OrdenarPorTotalCasos(distritos) ==
  SortSlice(distritos,
            [i \in 1..Len(distritos) |-> MenosTotalCasos(distritos[i])])

\* the loop over distritoMap, the entries of the map in the order visited
ConVelocidadesLocales(visitados) ==
  [i \in 1..Len(visitados) |-> ConVelocidadLocal(visitados[i])]

\* offset: the slot at which the range over distritoMap starts
analizarDistritosAfectados(casos, reg, offset) ==
  OrdenarPorTotalCasos(
    ConVelocidadesLocales(MapRange(AgruparPorDistrito(casos, reg, <<>>), offset)))

-----------------------------------------------------------------------------
(* PropagacionService.calcularDistanciaKm / calcularDistanciaHaversine *)

\* the districts of the coordenadas table
ConCoordenadas ==
  {"Equipetrol", "Norte", "Plan Tres Mil", "Villa 1ro de Mayo",
   "Sur", "Oeste", "Este", "Centro"}

\* calcularDistanciaHaversine between the centres of the coordenadas table,
\* in metres (R = 6371 km), rounded to the metre
Haversine ==
  {<<"Equipetrol", "Norte", 3655>>, <<"Equipetrol", "Plan Tres Mil", 3655>>,
   <<"Equipetrol", "Villa 1ro de Mayo", 6574>>, <<"Equipetrol", "Sur", 3214>>,
   <<"Equipetrol", "Oeste", 3506>>, <<"Equipetrol", "Este", 4440>>,
   <<"Equipetrol", "Centro", 1475>>, <<"Norte", "Plan Tres Mil", 0>>,
   <<"Norte", "Villa 1ro de Mayo", 7876>>, <<"Norte", "Sur", 6861>>,
   <<"Norte", "Oeste", 7121>>, <<"Norte", "Este", 4067>>,
   <<"Norte", "Centro", 3015>>, <<"Plan Tres Mil", "Villa 1ro de Mayo", 7876>>,
   <<"Plan Tres Mil", "Sur", 6861>>, <<"Plan Tres Mil", "Oeste", 7121>>,
   <<"Plan Tres Mil", "Este", 4067>>, <<"Plan Tres Mil", "Centro", 3015>>,
   <<"Villa 1ro de Mayo", "Sur", 7269>>, <<"Villa 1ro de Mayo", "Oeste", 7746>>,
   <<"Villa 1ro de Mayo", "Este", 4050>>, <<"Villa 1ro de Mayo", "Centro", 7883>>,
   <<"Sur", "Oeste", 482>>, <<"Sur", "Este", 6849>>, <<"Sur", "Centro", 4172>>,
   <<"Oeste", "Este", 7291>>, <<"Oeste", "Centro", 4332>>,
   <<"Este", "Centro", 5191>>}

calcularDistanciaHaversine(distrito1, distrito2) ==
  IF distrito1 = distrito2 THEN 0
  ELSE (CHOOSE h \in Haversine :
          \/ (h[1] = distrito1 /\ h[2] = distrito2)
          \/ (h[1] = distrito2 /\ h[2] = distrito1))[3]

calcularDistanciaKm(distrito1, distrito2) ==
  IF distrito1 \notin ConCoordenadas \/ distrito2 \notin ConCoordenadas
  THEN 0
  ELSE calcularDistanciaHaversine(distrito1, distrito2)

-----------------------------------------------------------------------------
(* PropagacionService.calcularRutasPropagacion *)

ClavePrimerCaso(d) == d.PrimerCaso

\* the mutant of RutaSi whose limit is 15 days
RutaSiHasta15(distritos, i, conectado, j) ==
  LET origen  == distritos[i]
      destino == distritos[j]
      diasTransicion == destino.PrimerCaso - origen.PrimerCaso
  IN  IF j > i /\ destino.Distrito = conectado
         /\ diasTransicion > 0 /\ diasTransicion <= 15
      THEN LET distancia == calcularDistanciaKm(origen.Distrito, destino.Distrito)
           IN  <<[DistritoOrigen   |-> origen.Distrito,
                  DistritoDestino  |-> destino.Distrito,
                  FechaPropagacion |-> destino.PrimerCaso,
                  DiasTransicion   |-> diasTransicion,
                  DistanciaKm      |-> distancia,
                  VelocidadKmDia   |-> Rat(distancia, diasTransicion)]>>
      ELSE <<>>

\* the mutant of RutaSi that takes a first case of the same day for a
\* propagation
RutaSiDesde0(distritos, i, conectado, j) ==
  LET origen  == distritos[i]
      destino == distritos[j]
      diasTransicion == destino.PrimerCaso - origen.PrimerCaso
  IN  IF j > i /\ destino.Distrito = conectado
         /\ diasTransicion >= 0 /\ diasTransicion <= 14
      THEN LET distancia == calcularDistanciaKm(origen.Distrito, destino.Distrito)
           IN  <<[DistritoOrigen   |-> origen.Distrito,
                  DistritoDestino  |-> destino.Distrito,
                  FechaPropagacion |-> destino.PrimerCaso,
                  DiasTransicion   |-> diasTransicion,
                  DistanciaKm      |-> distancia,
                  VelocidadKmDia   |-> IF diasTransicion > 0
                                       THEN Rat(distancia, diasTransicion)
                                       ELSE RatInt(0)]>>
      ELSE <<>>

\* the mutant of RutaSi that leaves out a propagation of exactly 14 days
RutaSiMenosDe14(distritos, i, conectado, j) ==
  LET origen  == distritos[i]
      destino == distritos[j]
      diasTransicion == destino.PrimerCaso - origen.PrimerCaso
  IN  IF j > i /\ destino.Distrito = conectado
         /\ diasTransicion > 0 /\ diasTransicion < 14
      THEN LET distancia == calcularDistanciaKm(origen.Distrito, destino.Distrito)
           IN  <<[DistritoOrigen   |-> origen.Distrito,
                  DistritoDestino  |-> destino.Distrito,
                  FechaPropagacion |-> destino.PrimerCaso,
                  DiasTransicion   |-> diasTransicion,
                  DistanciaKm      |-> distancia,
                  VelocidadKmDia   |-> Rat(distancia, diasTransicion)]>>
      ELSE <<>>

\* the body of the innermost loop: the routes origen i adds for destino j
\* the mutant of RutaSi that dates the route by the first case of the origin
\* and takes the distance for the speed
RutaSiFechaOrigen(distritos, i, conectado, j) ==
  LET origen  == distritos[i]
      destino == distritos[j]
      diasTransicion == destino.PrimerCaso - origen.PrimerCaso
  IN  IF j > i /\ destino.Distrito = conectado
         /\ diasTransicion > 0 /\ diasTransicion <= 14
      THEN LET distancia == calcularDistanciaKm(origen.Distrito, destino.Distrito)
           IN  <<[DistritoOrigen   |-> origen.Distrito,
                  DistritoDestino  |-> destino.Distrito,
                  FechaPropagacion |-> origen.PrimerCaso,
                  DiasTransicion   |-> diasTransicion,
                  DistanciaKm      |-> distancia,
                  VelocidadKmDia   |-> RatInt(distancia)]>>
      ELSE <<>>

\* the mutant of RutaSi that takes any other entry of the list for a
\* destination, whichever of the two first cases is the earlier
RutaSiSinOrden(distritos, i, conectado, j) ==
  LET origen  == distritos[i]
      destino == distritos[j]
      diasTransicion == destino.PrimerCaso - origen.PrimerCaso
  IN  IF j # i /\ destino.Distrito = conectado
         /\ diasTransicion # 0 /\ diasTransicion >= -14 /\ diasTransicion <= 14
      THEN LET distancia == calcularDistanciaKm(origen.Distrito, destino.Distrito)
           IN  <<[DistritoOrigen   |-> origen.Distrito,
                  DistritoDestino  |-> destino.Distrito,
                  FechaPropagacion |-> destino.PrimerCaso,
                  DiasTransicion   |-> diasTransicion,
                  DistanciaKm      |-> distancia,
                  VelocidadKmDia   |-> IF diasTransicion > 0
                                       THEN Rat(distancia, diasTransicion)
                                       ELSE RatInt(0)]>>
      ELSE <<>>

RutaSi(distritos, i, conectado, j) ==
  LET origen  == distritos[i]
      destino == distritos[j]
      diasTransicion == destino.PrimerCaso - origen.PrimerCaso
  IN  IF j > i /\ destino.Distrito = conectado
         /\ diasTransicion > 0 /\ diasTransicion <= 14
      THEN LET distancia == calcularDistanciaKm(origen.Distrito, destino.Distrito)
           IN  <<[DistritoOrigen   |-> origen.Distrito,
                  DistritoDestino  |-> destino.Distrito,
                  FechaPropagacion |-> destino.PrimerCaso,
                  DiasTransicion   |-> diasTransicion,
                  DistanciaKm      |-> distancia,
                  VelocidadKmDia   |-> IF diasTransicion > 0
                                       THEN Rat(distancia, diasTransicion)
                                       ELSE RatInt(0)]>>
      ELSE <<>>

RECURSIVE RutasDestinos(_, _, _, _)
RutasDestinos(distritos, i, conectado, j) ==
  IF j > Len(distritos) THEN <<>>
  ELSE RutaSi(distritos, i, conectado, j)
         \o RutasDestinos(distritos, i, conectado, j + 1)

RECURSIVE RutasConectados(_, _, _, _)
RutasConectados(distritos, i, conectividad, c) ==
  IF c > Len(conectividad) THEN <<>>
  ELSE RutasDestinos(distritos, i, conectividad[c], 1)
         \o RutasConectados(distritos, i, conectividad, c + 1)

RECURSIVE RutasOrigenes(_, _, _)
RutasOrigenes(distritos, reg, i) ==
  IF i > Len(distritos) THEN <<>>
  ELSE (IF distritos[i].Distrito \in DOMAIN reg
        THEN RutasConectados(distritos, i,
                             reg[distritos[i].Distrito].Conectividad, 1)
        ELSE <<>>)
         \o RutasOrigenes(distritos, reg, i + 1)

\* the mutant of OrdenarPorPrimerCaso that leaves the slice as it came
OrdenarPorPrimerCasoSinOrden(distritos) == distritos

\* sort.Slice(distritos, ...) by PrimerCaso ascending
OrdenarPorPrimerCaso(distritos) ==
  SortSlice(distritos,
            [i \in 1..Len(distritos) |-> ClavePrimerCaso(distritos[i])])

\* the loops over the sorted slice
RutasDe(ordenados, reg) ==
  [distritos |-> ordenados, rutas |-> RutasOrigenes(ordenados, reg, 1)]

\* the slice is sorted in place: the caller's distritos is what the sort left
calcularRutasPropagacion(distritos, reg) ==
  RutasDe(OrdenarPorPrimerCaso(distritos), reg)

-----------------------------------------------------------------------------
(* PropagacionService.calcularVelocidades *)

Maximo(S) == CHOOSE x \in S : \A y \in S : y <= x

\* the mutant of CasosPorDia that keeps the largest aggregate of the date
CasosPorDiaMayorGrupo(casos, fecha) ==
  Maximo({0} \cup {casos[i].TotalCasos :
                     i \in {j \in 1..Len(casos) : casos[j].Fecha = fecha}})

\* casosPorDia[fecha], fecha being the key caso.Fecha.Format("2006-01-02")
CasosPorDia(casos, fecha) ==
  SumSeq([i \in 1..Len(casos) |->
            IF casos[i].Fecha = fecha THEN casos[i].TotalCasos ELSE 0])

RECURSIVE SumaDe(_, _)
SumaDe(f, S) ==
  IF S = {} THEN 0
  ELSE LET x == CHOOSE y \in S : TRUE IN f[x] + SumaDe(f, S \ {x})

calcularVelocidades(casos, diasAnalisis) ==
  IF Len(casos) = 0 THEN [promedio |-> RatInt(0), maxima |-> RatInt(0)]
  ELSE
    LET fechas      == {casos[i].Fecha : i \in 1..Len(casos)}
        casosPorDia == [f \in fechas |-> CasosPorDia(casos, f)]
        totalCasos  == SumaDe(casosPorDia, fechas)
        maxCasosDia == Maximo({0} \cup {casosPorDia[f] : f \in fechas})
    IN  [promedio |-> Rat(totalCasos, diasAnalisis),
         maxima   |-> RatInt(maxCasosDia)]

-----------------------------------------------------------------------------
(* PropagacionService.calcularFactorDensidad *)

RECURSIVE SumaFactores(_)
SumaFactores(distritos) ==
  IF distritos = <<>> THEN RatInt(0)
  ELSE RatAdd(RatDiv(RatMul(RatInt(Head(distritos).DensidadHab),
                            Head(distritos).VelocidadLocal),
                     RatInt(1000)),
              SumaFactores(Tail(distritos)))

calcularFactorDensidad(distritos) ==
  IF Len(distritos) = 0 THEN RatInt(0)
  ELSE RatDiv(SumaFactores(distritos), RatInt(Len(distritos)))

-----------------------------------------------------------------------------
(* PropagacionService.calcularPrediccion *)

\* probabilidad before the cap
ProbabilidadBruta(info, velocidadPromedio, factorDensidad) ==
  RatMul(RatAdd(RatAdd(RatAdd(Rat(info.Densidad, 10000),
                              Rat(Len(info.Conectividad), 10)),
                       RatDiv(velocidadPromedio, RatInt(10))),
                RatDiv(factorDensidad, RatInt(10))),
         RatInt(100))

\* if probabilidad > 100 { probabilidad = 100 }
Tope(probabilidad) ==
  IF RatLT(RatInt(100), probabilidad) THEN RatInt(100) ELSE probabilidad

\* the switch over probabilidad
NivelDeProbabilidad(probabilidad) ==
  IF RatLE(RatInt(80), probabilidad) THEN "CRITICO"
  ELSE IF RatLE(RatInt(60), probabilidad) THEN "ALTO"
  ELSE IF RatLE(RatInt(40), probabilidad) THEN "MEDIO"
  ELSE "BAJO"

\* the statements after the cap, probabilidad being what the cap left
PrediccionCon(distrito, velocidadPromedio, casosActuales, ahora, probabilidad) ==
  [Distrito        |-> distrito,
   FechaPrediccion |-> AddDate(ahora, 7),
   CasosPredichos  |->
     RatTrunc(RatDiv(RatMul(velocidadPromedio, probabilidad), RatInt(100)))
       + (IF casosActuales > 0 THEN casosActuales ELSE 0),
   Probabilidad    |-> Rat(RatRound(RatMul(probabilidad, RatInt(100))), 100),
   NivelRiesgo     |-> NivelDeProbabilidad(probabilidad)]

\* the mutant of calcularPrediccion without the cap at 100
calcularPrediccionSinTope(distrito, info, velocidadPromedio, factorDensidad, casosActuales, ahora) ==
  PrediccionCon(distrito, velocidadPromedio, casosActuales, ahora,
                ProbabilidadBruta(info, velocidadPromedio, factorDensidad))

\* ahora: what time.Now() returns when the prediction is built
calcularPrediccion(distrito, info, velocidadPromedio, factorDensidad, casosActuales, ahora) ==
  PrediccionCon(distrito, velocidadPromedio, casosActuales, ahora,
                Tope(ProbabilidadBruta(info, velocidadPromedio, factorDensidad)))

-----------------------------------------------------------------------------
(* PropagacionService.generarPredicciones *)

\* the inner loop: the first entry of distritos with that name, if any
Afectado(distritos, distritoNombre) ==
  \E i \in 1..Len(distritos) : distritos[i].Distrito = distritoNombre

CasosActuales(distritos, distritoNombre) ==
  IF Afectado(distritos, distritoNombre)
  THEN LET i == CHOOSE x \in 1..Len(distritos) :
                  /\ distritos[x].Distrito = distritoNombre
                  /\ \A y \in 1..(x - 1) : distritos[y].Distrito # distritoNombre
       IN  distritos[i].TotalCasos
  ELSE 0

\* the mutant of Predecir that predicts the districts without cases only
PredecirSoloNoAfectados(distritos, distritoNombre) ==
  ~Afectado(distritos, distritoNombre)

\* the mutant of Predecir that still predicts a district of 5 cases
PredecirHasta5(distritos, distritoNombre) ==
  \/ ~Afectado(distritos, distritoNombre)
  \/ CasosActuales(distritos, distritoNombre) <= 5

\* the predicate under which a district of the registry gets a prediction
Predecir(distritos, distritoNombre) ==
  \/ ~Afectado(distritos, distritoNombre)
  \/ CasosActuales(distritos, distritoNombre) < 5

\* Probabilidad has two decimals: the key of the descending sort, in hundredths
MenosProbabilidad(p) == -((p.Probabilidad[1] * 100) \div p.Probabilidad[2])

\* the mutant of OrdenarPorProbabilidad that leaves the slice as appended
OrdenarPorProbabilidadSinOrden(predicciones) == predicciones

\* sort.Slice(predicciones, ...) by Probabilidad descending
OrdenarPorProbabilidad(predicciones) ==
  SortSlice(predicciones,
            [i \in 1..Len(predicciones) |-> MenosProbabilidad(predicciones[i])])

\* the predictions appended, elegidos being the districts that pass the test,
\* in the order visited
PrediccionesDe(elegidos, distritos, reg, velocidadPromedio, factorDensidad, ahora) ==
  [i \in 1..Len(elegidos) |->
     calcularPrediccion(elegidos[i], reg[elegidos[i]], velocidadPromedio,
                        factorDensidad, CasosActuales(distritos, elegidos[i]),
                        ahora)]

\* offset: the slot at which the range over the registry starts
generarPredicciones(distritos, reg, velocidadPromedio, factorDensidad, offset, ahora) ==
  OrdenarPorProbabilidad(
    PrediccionesDe(
      SelectSeq(MapRange(SelectSeq(Claves, LAMBDA d : d \in DOMAIN reg), offset),
                LAMBDA d : Predecir(distritos, d)),
      distritos, reg, velocidadPromedio, factorDensidad, ahora))

-----------------------------------------------------------------------------
(* PropagacionService.generarRecomendaciones *)

generarRecomendaciones(distritos, velocidadPromedio, factorDensidad) ==
  (IF RatLT(RatInt(5), velocidadPromedio) THEN <<"ALERTA: velocidad alta">>
   ELSE <<>>)
  \o (IF RatLT(RatInt(10), factorDensidad) THEN <<"alta densidad">> ELSE <<>>)
  \o [i \in 1..Len(SelectSeq(distritos,
                     LAMBDA d : d.RiesgoExpansion = "CRITICO")) |->
        SelectSeq(distritos, LAMBDA d : d.RiesgoExpansion = "CRITICO")[i].Distrito]
  \o <<"vigilancia", "recursos", "actualizar">>

-----------------------------------------------------------------------------
(* PropagacionService.AnalyzeSpreadVelocity *)

ErrNoData == "no se encontraron casos"

\* In the operators of this section, periodo is the PeriodoAnalisis of the
\* call; ahora is what the time.Now() of calcularPrediccion returns;
\* offsetAfectados and offsetRegistro are where the two ranges over maps
\* start.  The answer is the pair the function returns (resultado is missing
\* when it is nil) and, for the record, two of its local variables.

\* generarPredicciones, generarRecomendaciones and the result
AnalisisDesdeFactor(casosTemporales, distritosAnalizados, rr, vv, factorDensidad, reg, enfermedad, periodo, ahora, offsetRegistro) ==
  [err |-> "",
   casosTemporales |-> casosTemporales,
   distritosAnalizados |-> distritosAnalizados,
   resultado |->
     [Enfermedad |-> enfermedad,
      PeriodoAnalisis      |-> periodo,
      VelocidadPromedio    |-> vv.promedio,
      VelocidadMaxima      |-> vv.maxima,
      DistritosAfectados   |-> rr.distritos,
      RutasPropagacion     |-> rr.rutas,
      FactorDensidad       |-> factorDensidad,
      PredictedSpread      |->
        generarPredicciones(rr.distritos, reg, vv.promedio, factorDensidad,
                            offsetRegistro, ahora),
      RecomendacionesAlert |->
        generarRecomendaciones(rr.distritos, vv.promedio, factorDensidad)]]

\* calcularFactorDensidad and what follows; rr.distritos is distritosAfectados
\* as calcularRutasPropagacion has left it, rr.rutas what it returned
AnalisisDesdeRutas(casosTemporales, distritosAnalizados, rr, vv, reg, enfermedad, periodo, ahora, offsetRegistro) ==
  AnalisisDesdeFactor(casosTemporales, distritosAnalizados, rr, vv,
                      calcularFactorDensidad(rr.distritos), reg, enfermedad,
                      periodo, ahora, offsetRegistro)

\* calcularRutasPropagacion, calcularVelocidades and what follows
AnalisisDesdeDistritos(casosTemporales, distritosAnalizados, reg, enfermedad, periodo, ahora, offsetRegistro) ==
  AnalisisDesdeRutas(casosTemporales, distritosAnalizados,
                     calcularRutasPropagacion(distritosAnalizados, reg),
                     calcularVelocidades(casosTemporales, periodo.DiasTotales),
                     reg, enfermedad, periodo, ahora, offsetRegistro)

\* the statements after the check of len(casosTemporales)
Analisis(casosTemporales, reg, enfermedad, periodo, ahora, offsetAfectados, offsetRegistro) ==
  AnalisisDesdeDistritos(casosTemporales,
                         analizarDistritosAfectados(casosTemporales, reg,
                                                    offsetAfectados),
                         reg, enfermedad, periodo, ahora, offsetRegistro)

\* the check of len(casosTemporales) and what follows
AnalisisDeCasos(casosTemporales, reg, enfermedad, periodo, ahora, offsetAfectados, offsetRegistro) ==
  IF Len(casosTemporales) = 0
  THEN [err |-> ErrNoData, casosTemporales |-> casosTemporales]
  ELSE Analisis(casosTemporales, reg, enfermedad, periodo, ahora,
                offsetAfectados, offsetRegistro)

\* fechaFin := time.Now(); fechaInicio := fechaFin.AddDate(0, 0, -diasAnalisis)
Periodo(fechaFin, diasAnalisis) ==
  [FechaInicio |-> AddDate(fechaFin, -diasAnalisis),
   FechaFin    |-> fechaFin,
   DiasTotales |-> diasAnalisis]

\* the query for the period
CasosDelPeriodo(tabla, enfermedad, periodo) ==
  obtenerCasosTemporales(tabla, enfermedad, periodo.FechaInicio, periodo.FechaFin)

\* the mutant of AnalyzeSpreadVelocity that analyses an empty set of cases
AnalyzeSpreadVelocitySinCasos(tabla, reg, enfermedad, diasAnalisis, fechaFin, ahora, offsetAfectados, offsetRegistro) ==
  Analisis(CasosDelPeriodo(tabla, enfermedad, Periodo(fechaFin, diasAnalisis)),
           reg, enfermedad, Periodo(fechaFin, diasAnalisis), ahora,
           offsetAfectados, offsetRegistro)

\* fechaFin: what the time.Now() of the first statement returns
AnalyzeSpreadVelocity(tabla, reg, enfermedad, diasAnalisis, fechaFin, ahora, offsetAfectados, offsetRegistro) ==
  AnalisisDeCasos(
    CasosDelPeriodo(tabla, enfermedad, Periodo(fechaFin, diasAnalisis)),
    reg, enfermedad, Periodo(fechaFin, diasAnalisis), ahora,
    offsetAfectados, offsetRegistro)

-----------------------------------------------------------------------------
(* Inputs *)

Fechas == {1, 2, 16}

Hoy == Maximo(Fechas)

\* what time.Now() may return at the start of an analysis
Ahoras == {<<Hoy, 0>>, <<Hoy, 1>>}

\* what the later time.Now() of the same analysis may return: the clock has
\* not moved, or it has (only requests are tried with a clock that moves)
LecturasPosteriores(t) == {t, <<t[1], t[2] + 1>>}

DistritosCaso == {"Norte", "Equipetrol", "Zentro"}

EnfermedadesConsulta == {"dengue", "ZIKA"}

\* diasAnalisis of a direct call of the service
DiasServicio == {3, 15}

\* the query parameter dias of a request
DiasSolicitud == {"3", "7", "87", "400", "abc"}

Fila(enfermedad, fecha, distrito, contagioso) ==
  [enfermedad |-> enfermedad, fecha |-> fecha, distrito |-> distrito,
   contagioso |-> contagioso]

\* a row of another disease, which every sparse table holds
OtraEnfermedad == Fila("Zika", 2, "Norte", FALSE) :> 1

\* at most MaxGrupos (date, district) groups of the disease, of one row each
\* but for at most one group of MaxCasosCelda rows
TablasDispersas ==
  UNION {
    {[r \in {Fila("Dengue", g[1], g[2], TRUE) : g \in grupos} |->
        IF <<r.fecha, r.distrito>> = grande[1] THEN grande[2] ELSE 1]
       @@ OtraEnfermedad
     : grande \in (grupos \X {MaxCasosCelda}) \cup {<<<<0, "">>, 1>>}}
    : grupos \in {G \in SUBSET (Fechas \X DistritosCaso) :
                    Cardinality(G) <= MaxGrupos}}

FechasDensas == (Hoy - DiasDensos + 1)..Hoy

\* one row of the district for every date from some date up to today
TablasDensas ==
  {[r \in {Fila("Dengue", f, "Norte", TRUE) : f \in desde..Hoy} |-> 1]
     : desde \in FechasDensas}

\* an outbreak in one district outside the registry: fifty rows on one day
TablaBrote ==
  [r \in {Fila("Dengue", Hoy, "Zentro", TRUE)} |-> 50] @@ OtraEnfermedad

\* the same outbreak of 95 rows next to a district of the registry with one
\* row on each of two dates 14 days apart
TablaBroteVecino ==
  [r \in {Fila("Dengue", Hoy, "Zentro", TRUE),
          Fila("Dengue", Hoy - 14, "Equipetrol", TRUE),
          Fila("Dengue", Hoy, "Equipetrol", TRUE)} |->
     IF r.distrito = "Zentro" THEN 95 ELSE 1] @@ OtraEnfermedad

\* rows of today that write the disease and the district in several ways
TablaGrafias ==
  [r \in {Fila("Dengue", Hoy, "Norte", TRUE), Fila("DENGUE", Hoy, "Norte", TRUE),
          Fila("dengue", Hoy, "norte", TRUE),
          Fila("Dengue", Hoy - 1, "Zentro", TRUE)} |-> 1] @@ OtraEnfermedad

-----------------------------------------------------------------------------
(* State machine *)

Nil == [nil |-> TRUE]

\* the invocations of AnalyzeSpreadVelocity that may be in flight at once
Invocaciones == {1, 2}

\* the frame of an invocation that is not in flight: pc is the statement it is
\* at, the other fields are the arguments and the local variables of
\* AnalyzeSpreadVelocity, and what the ranges over maps and the later
\* time.Now() have drawn for it
MarcoLibre ==
  [pc |-> "libre", enfermedad |-> "", diasAnalisis |-> 0, fechaFin |-> <<0, 0>>,
   offsetAfectados |-> 0, offsetRegistro |-> 0, ahora |-> <<0, 0>>,
   casosTemporales |-> <<>>, distritosAfectados |-> <<>>,
   rutasPropagacion |-> <<>>,
   velocidadPromedio |-> RatInt(0), velocidadMaxima |-> RatInt(0),
   factorDensidad |-> RatInt(0), predicciones |-> <<>>,
   recomendaciones |-> <<>>, retorno |-> Nil]

SinInvocaciones == [p \in Invocaciones |-> MarcoLibre]

Init ==
  /\ historial \in TablasDispersas \cup TablasDensas
                   \cup {TablaBrote, TablaBroteVecino, TablaGrafias}
  /\ densidadPoblacionalSantaCruz = RegistroInicial
  /\ respuesta = [tipo |-> "none"]
  /\ locales = [tipo |-> "none"]
  /\ invocaciones = SinInvocaciones

\* what an invocation that has computed a leaves behind: the pair it returns
\* and, in locales, its arguments and local variables
Retorno(a, enfermedad, diasAnalisis, fechaFin) ==
  [retorno |-> IF a.err # "" THEN [resultado |-> Nil, err |-> a.err]
               ELSE [resultado |-> a.resultado, err |-> ""],
   locales |-> [tipo |-> "analisis",
                enfermedad |-> enfermedad,
                diasAnalisis |-> diasAnalisis,
                fechaFin |-> fechaFin,
                casosTemporales |-> a.casosTemporales,
                distritosAfectados |->
                  IF a.err # "" THEN <<>> ELSE a.distritosAnalizados]]

\* one invocation of the service
Invocar(enfermedad, diasAnalisis, fechaFin, ahora, o1, o2) ==
  Retorno(AnalyzeSpreadVelocity(historial, densidadPoblacionalSantaCruz,
                                enfermedad, diasAnalisis, fechaFin, ahora,
                                o1, o2),
          enfermedad, diasAnalisis, fechaFin)

\* the sets the nondeterminism of one invocation ranges over
OffsetsAfectados(enfermedad, diasAnalisis, fechaFin) ==
  Offsets(AgruparPorDistrito(
            obtenerCasosTemporales(historial, enfermedad,
                                   AddDate(fechaFin, -diasAnalisis), fechaFin),
            densidadPoblacionalSantaCruz, <<>>))

OffsetsRegistro ==
  Offsets(SelectSeq(Claves, LAMBDA d : d \in DOMAIN densidadPoblacionalSantaCruz))

\* the mutant of RegistroLeido in which the reader reorders the Conectividad
\* slice it ranges over, whose array is the registry's
RegistroLeidoReordenado(reg) ==
  [d \in DOMAIN reg |->
     [reg[d] EXCEPT !.Conectividad =
        [i \in 1..Len(reg[d].Conectividad) |->
           reg[d].Conectividad[Len(reg[d].Conectividad) + 1 - i]]]]

\* the registry after an invocation: calcularRutasPropagacion indexes it and
\* ranges over the Conectividad of a copy of the entry, generarPredicciones
\* ranges over it and passes copies of the entries on; nothing assigns to it
RegistroLeido(reg) == reg

\* the caller of the service has what the invocation inv returned
RecibirDelServicio(inv) ==
  /\ respuesta' = [tipo |-> "servicio"] @@ inv.retorno
  /\ locales' = inv.locales
  /\ densidadPoblacionalSantaCruz' = RegistroLeido(densidadPoblacionalSantaCruz)

\* a direct call of PropagacionService.AnalyzeSpreadVelocity
ServicioAnalyzeSpreadVelocity ==
  /\ respuesta.tipo = "none"
  /\ \E enfermedad \in EnfermedadesConsulta, diasAnalisis \in DiasServicio,
        fechaFin \in Ahoras :
       \E o1 \in OffsetsAfectados(enfermedad, diasAnalisis, fechaFin),
          o2 \in OffsetsRegistro :
         RecibirDelServicio(
           Invocar(enfermedad, diasAnalisis, fechaFin, fechaFin, o1, o2))
  /\ UNCHANGED <<historial, invocaciones>>

\* strconv.Atoi of the query parameter
Atoi(str) ==
  CASE str = "3" -> [n |-> 3, err |-> FALSE]
    [] str = "7" -> [n |-> 7, err |-> FALSE]
    [] str = "87" -> [n |-> 87, err |-> FALSE]
    [] str = "400" -> [n |-> 400, err |-> FALSE]
    [] OTHER -> [n |-> 0, err |-> TRUE]

\* the response of the handler to what the invocation inv returned
ResponderAnalisis(inv) ==
  /\ respuesta' =
       IF inv.retorno.err # ""
       THEN [tipo |-> "http", status |-> 500, code |-> "ANALYSIS_ERROR",
             data |-> Nil]
       ELSE [tipo |-> "http", status |-> 200, code |-> "",
             data |-> inv.retorno.resultado]
  /\ locales' = inv.locales
  /\ densidadPoblacionalSantaCruz' = RegistroLeido(densidadPoblacionalSantaCruz)

\* PropagacionHandler.AnalyzeSpreadVelocity: GET /propagacion/analizar
HandlerAnalyzeSpreadVelocity ==
  /\ respuesta.tipo = "none"
  /\ \E enfermedad \in EnfermedadesConsulta \cup {""}, diasStr \in DiasSolicitud,
        fechaFin \in Ahoras :
       LET dias == Atoi(diasStr)
       IN  IF enfermedad = ""
           THEN /\ respuesta' = [tipo |-> "http", status |-> 400,
                                 code |-> "MISSING_PARAMETER", data |-> Nil]
                /\ locales' = [tipo |-> "none"]
                /\ UNCHANGED densidadPoblacionalSantaCruz
           ELSE IF dias.err \/ dias.n < 7 \/ dias.n > 365
           THEN /\ respuesta' = [tipo |-> "http", status |-> 400,
                                 code |-> "INVALID_PARAMETER", data |-> Nil]
                /\ locales' = [tipo |-> "none"]
                /\ UNCHANGED densidadPoblacionalSantaCruz
           ELSE \E ahora \in LecturasPosteriores(fechaFin),
                   o1 \in OffsetsAfectados(enfermedad, dias.n, fechaFin),
                   o2 \in OffsetsRegistro :
                  ResponderAnalisis(
                    Invocar(enfermedad, dias.n, fechaFin, ahora, o1, o2))
  /\ UNCHANGED <<historial, invocaciones>>

\* the caller has its answer; the locals of the invocation are gone
FinSolicitud ==
  /\ respuesta.tipo # "none"
  /\ respuesta' = [tipo |-> "none"]
  /\ locales' = [tipo |-> "none"]
  /\ UNCHANGED <<historial, densidadPoblacionalSantaCruz, invocaciones>>

Next ==
  \/ ServicioAnalyzeSpreadVelocity
  \/ HandlerAnalyzeSpreadVelocity
  \/ FinSolicitud

Spec == Init /\ [][Next]_vars

-----------------------------------------------------------------------------
(* Concurrent invocations of AnalyzeSpreadVelocity, one statement at a time *)

\* the tables the concurrent invocations read: two districts of the registry
\* with one case each, 14 days apart, and a district outside the registry with
\* MaxCasosCelda cases next to one of the registry
TablasConcurrentes ==
  {[r \in {Fila("Dengue", 2, "Norte", TRUE),
           Fila("Dengue", Hoy, "Equipetrol", TRUE)} |-> 1] @@ OtraEnfermedad,
   [r \in {Fila("Dengue", 1, "Zentro", TRUE),
           Fila("Dengue", Hoy, "Norte", TRUE)} |->
      IF r.distrito = "Zentro" THEN MaxCasosCelda ELSE 1] @@ OtraEnfermedad}

InitConc ==
  /\ historial \in TablasConcurrentes
  /\ densidadPoblacionalSantaCruz = RegistroInicial
  /\ respuesta = [tipo |-> "none"]
  /\ locales = [tipo |-> "none"]
  /\ invocaciones = SinInvocaciones

\* the mutant of Marco in which the arguments and local variables are fields
\* of the service, which every invocation shares
MarcoCompartido(marcos, p) == marcos[1]

\* the arguments and local variables the statements of invocation p read:
\* those of its own call
Marco(marcos, p) == marcos[p]

\* the statement of invocation p has run: its frame is now m
Paso(p, m) ==
  /\ invocaciones' = [invocaciones EXCEPT ![p] = m]
  /\ densidadPoblacionalSantaCruz' = RegistroLeido(densidadPoblacionalSantaCruz)
  /\ UNCHANGED <<historial, respuesta, locales>>

\* the clock stands still while the concurrent invocations run
RelojConc == {<<Hoy, 0>>}

\* the call: fechaFin := time.Now()
Entrar(p) ==
  /\ invocaciones[p].pc = "libre"
  /\ \E enfermedad \in EnfermedadesConsulta, diasAnalisis \in DiasServicio,
        fechaFin \in RelojConc :
       /\ invocaciones' =
            [invocaciones EXCEPT ![p] =
               [MarcoLibre EXCEPT !.pc = "consulta",
                                  !.enfermedad = enfermedad,
                                  !.diasAnalisis = diasAnalisis,
                                  !.fechaFin = fechaFin]]
       /\ UNCHANGED <<historial, densidadPoblacionalSantaCruz, respuesta,
                      locales>>

ConsultarCon(p, casos) ==
  IF Len(casos) = 0
  THEN Paso(p, [invocaciones[p] EXCEPT
                  !.pc = "retornado",
                  !.retorno = [resultado |-> Nil, err |-> ErrNoData]])
  ELSE Paso(p, [invocaciones[p] EXCEPT !.pc = "distritos",
                                       !.casosTemporales = casos])

\* casosTemporales, err := s.obtenerCasosTemporales(...) and the two checks
Consultar(p) ==
  /\ invocaciones[p].pc = "consulta"
  /\ ConsultarCon(p, CasosDelPeriodo(
                       historial, Marco(invocaciones, p).enfermedad,
                       Periodo(Marco(invocaciones, p).fechaFin,
                               Marco(invocaciones, p).diasAnalisis)))

\* distritosAfectados := s.analizarDistritosAfectados(casosTemporales)
AnalizarDistritos(p) ==
  /\ invocaciones[p].pc = "distritos"
  /\ \E o1 \in Offsets(AgruparPorDistrito(
                         Marco(invocaciones, p).casosTemporales,
                         densidadPoblacionalSantaCruz, <<>>)) :
       Paso(p, [invocaciones[p] EXCEPT
                  !.pc = "rutas",
                  !.offsetAfectados = o1,
                  !.distritosAfectados =
                     analizarDistritosAfectados(
                       Marco(invocaciones, p).casosTemporales,
                       densidadPoblacionalSantaCruz, o1)])

CalcularRutasCon(p, rr) ==
  Paso(p, [invocaciones[p] EXCEPT !.pc = "velocidades",
                                  !.distritosAfectados = rr.distritos,
                                  !.rutasPropagacion = rr.rutas])

\* rutasPropagacion := s.calcularRutasPropagacion(distritosAfectados), which
\* sorts distritosAfectados in place
CalcularRutas(p) ==
  /\ invocaciones[p].pc = "rutas"
  /\ CalcularRutasCon(p, calcularRutasPropagacion(
                           Marco(invocaciones, p).distritosAfectados,
                           densidadPoblacionalSantaCruz))

CalcularVelocidadesCon(p, vv) ==
  Paso(p, [invocaciones[p] EXCEPT !.pc = "factor",
                                  !.velocidadPromedio = vv.promedio,
                                  !.velocidadMaxima = vv.maxima])

\* velocidadPromedio, velocidadMaxima := s.calcularVelocidades(...)
CalcularVelocidades(p) ==
  /\ invocaciones[p].pc = "velocidades"
  /\ CalcularVelocidadesCon(p, calcularVelocidades(
                                 Marco(invocaciones, p).casosTemporales,
                                 Marco(invocaciones, p).diasAnalisis))

\* factorDensidad := s.calcularFactorDensidad(distritosAfectados)
CalcularFactor(p) ==
  /\ invocaciones[p].pc = "factor"
  /\ Paso(p, [invocaciones[p] EXCEPT
                 !.pc = "predicciones",
                 !.factorDensidad =
                    calcularFactorDensidad(
                      Marco(invocaciones, p).distritosAfectados)])

\* predicciones := s.generarPredicciones(...)
GenerarPredicciones(p) ==
  /\ invocaciones[p].pc = "predicciones"
  /\ \E o2 \in OffsetsRegistro, ahora \in RelojConc :
       Paso(p, [invocaciones[p] EXCEPT
                  !.pc = "recomendaciones",
                  !.offsetRegistro = o2,
                  !.ahora = ahora,
                  !.predicciones =
                     generarPredicciones(
                       Marco(invocaciones, p).distritosAfectados,
                       densidadPoblacionalSantaCruz,
                       Marco(invocaciones, p).velocidadPromedio,
                       Marco(invocaciones, p).factorDensidad, o2, ahora)])

\* recomendaciones := s.generarRecomendaciones(...)
GenerarRecomendaciones(p) ==
  /\ invocaciones[p].pc = "recomendaciones"
  /\ Paso(p, [invocaciones[p] EXCEPT
                 !.pc = "resultado",
                 !.recomendaciones =
                    generarRecomendaciones(
                      Marco(invocaciones, p).distritosAfectados,
                      Marco(invocaciones, p).velocidadPromedio,
                      Marco(invocaciones, p).factorDensidad)])

\* the VelocidadPropagacion built from the frame m
ResultadoDe(m) ==
  [Enfermedad           |-> m.enfermedad,
   PeriodoAnalisis      |-> Periodo(m.fechaFin, m.diasAnalisis),
   VelocidadPromedio    |-> m.velocidadPromedio,
   VelocidadMaxima      |-> m.velocidadMaxima,
   DistritosAfectados   |-> m.distritosAfectados,
   RutasPropagacion     |-> m.rutasPropagacion,
   FactorDensidad       |-> m.factorDensidad,
   PredictedSpread      |-> m.predicciones,
   RecomendacionesAlert |-> m.recomendaciones]

\* resultado := &VelocidadPropagacion{...}; return resultado, nil
Retornar(p) ==
  /\ invocaciones[p].pc = "resultado"
  /\ Paso(p, [invocaciones[p] EXCEPT
                 !.pc = "retornado",
                 !.retorno = [resultado |-> ResultadoDe(Marco(invocaciones, p)),
                              err |-> ""]])

\* the caller has what the invocation returned; its frame is gone
Salir(p) ==
  /\ invocaciones[p].pc = "retornado"
  /\ invocaciones' = [invocaciones EXCEPT ![p] = MarcoLibre]
  /\ UNCHANGED <<historial, densidadPoblacionalSantaCruz, respuesta, locales>>

NextConc ==
  \E p \in Invocaciones :
    \/ Entrar(p)
    \/ Consultar(p)
    \/ AnalizarDistritos(p)
    \/ CalcularRutas(p)
    \/ CalcularVelocidades(p)
    \/ CalcularFactor(p)
    \/ GenerarPredicciones(p)
    \/ GenerarRecomendaciones(p)
    \/ Retornar(p)
    \/ Salir(p)

SpecConc == InitConc /\ [][NextConc]_vars

-----------------------------------------------------------------------------
(* calcularRutasPropagacion on its own, over lists of affected districts *)

\* the districts of the lists: three districts of the registry each connected
\* to the other two, and a district the registry does not know
DistritosRuta == {"Equipetrol", "Sur", "Centro", "Zentro"}

FechasRuta == 1..MaxFechaRuta

\* the registry with a connection that only one of its two ends lists
RegistroAsimetrico ==
  [RegistroInicial EXCEPT !["Sur"].Conectividad = <<"Plan Tres Mil", "Centro">>]

\* the lists of at most MaxAfectados entries, no district twice, in every
\* order
ListasAfectadas ==
  UNION {
    {[i \in 1..n |-> [Distrito |-> l[i][1], PrimerCaso |-> l[i][2]]]
       : l \in {x \in [1..n -> DistritosRuta \X FechasRuta] :
                  \A i, j \in 1..n : i # j => x[i][1] # x[j][1]}}
    : n \in 1..MaxAfectados}

InitRutas ==
  /\ historial = OtraEnfermedad
  /\ densidadPoblacionalSantaCruz \in {RegistroInicial, RegistroAsimetrico}
  /\ respuesta = [tipo |-> "none"]
  /\ locales = [tipo |-> "none"]
  /\ invocaciones = SinInvocaciones

\* the call has returned rr; distritos is the list it was given
RecibirRutas(distritos, rr) ==
  /\ locales' = [tipo |-> "rutas", distritos |-> distritos]
  /\ respuesta' = [tipo |-> "rutas", rutas |-> rr.rutas,
                   distritos |-> rr.distritos]

\* one call of calcularRutasPropagacion
LlamarCalcularRutas ==
  /\ respuesta.tipo = "none"
  /\ \E distritos \in ListasAfectadas :
       RecibirRutas(distritos,
                    calcularRutasPropagacion(distritos,
                                             densidadPoblacionalSantaCruz))
  /\ UNCHANGED <<historial, densidadPoblacionalSantaCruz, invocaciones>>

NextRutas ==
  \/ LlamarCalcularRutas
  \/ FinSolicitud

SpecRutas == InitRutas /\ [][NextRutas]_vars

-----------------------------------------------------------------------------
(* PropagacionHandler.GetSpreadComparison: GET /propagacion/comparar *)

\* the values of the query parameter enfermedades that are not empty
ConsultasComparacion ==
  {"dengue", "dengue,zika", "dengue, ZIKA", "dengue,chikungunya",
   "chikungunya,resumen_comparativo", "dengue,dengue", "dengue,"}

\* strings.Split(enfermedadesStr, ",")
Split(str) ==
  CASE str = "dengue" -> <<"dengue">>
    [] str = "dengue,zika" -> <<"dengue", "zika">>
    [] str = "dengue, ZIKA" -> <<"dengue", " ZIKA">>
    [] str = "dengue,chikungunya" -> <<"dengue", "chikungunya">>
    [] str = "chikungunya,resumen_comparativo" ->
         <<"chikungunya", "resumen_comparativo">>
    [] str = "dengue,dengue" -> <<"dengue", "dengue">>
    [] str = "dengue," -> <<"dengue", "">>
    [] OTHER -> <<str>>

\* strings.TrimSpace(enfermedad)
TrimSpace(str) == IF str = " ZIKA" THEN "ZIKA" ELSE str

\* what the calls of one request draw, one entry per piece of the parameter:
\* the time.Now() of the call, which does not go back from one call to the
\* next, and where its two ranges over maps start
Sorteos(n) ==
  {x \in [1..n -> [fechaFin : Ahoras, o1 : 0..1, o2 : OffsetsRegistro]] :
     \A i \in 1..(n - 1) : InstLE(x[i].fechaFin, x[i + 1].fechaFin)}

\* the body of the loop for one piece: nothing for an empty name, else the
\* call of the service and what it returned
Llamada(pieza, dias, sorteo) ==
  IF TrimSpace(pieza) = ""
  THEN [omitida |-> TRUE]
  ELSE [omitida    |-> FALSE,
        enfermedad |-> TrimSpace(pieza),
        sorteo     |-> sorteo,
        retorno    |-> Invocar(TrimSpace(pieza), dias, sorteo.fechaFin,
                               sorteo.fechaFin, sorteo.o1, sorteo.o2).retorno]

\* the loop over enfermedades
Llamadas(enfermedades, dias, sorteos) ==
  [i \in 1..Len(enfermedades) |-> Llamada(enfermedades[i], dias, sorteos[i])]

\* comparacion[enfermedad] = ... : a later assignment to a key replaces the
\* earlier one
RECURSIVE Asignar(_, _, _)
Asignar(comparacion, llamadas, i) ==
  IF i > Len(llamadas) THEN comparacion
  ELSE IF llamadas[i].omitida THEN Asignar(comparacion, llamadas, i + 1)
  ELSE Asignar(
         (llamadas[i].enfermedad :>
            (IF llamadas[i].retorno.err # ""
             THEN [error |-> llamadas[i].retorno.err]
             ELSE llamadas[i].retorno.resultado)) @@ comparacion,
         llamadas, i + 1)

\* analisisCompletos = append(analisisCompletos, *analisis)
AnalisisCompletos(llamadas) ==
  LET ok == SelectSeq(llamadas, LAMBDA l : ~l.omitida /\ l.retorno.err = "")
  IN  [i \in 1..Len(ok) |-> ok[i].retorno.resultado]

\* the switch of determinarNivelAlerta
determinarNivelAlerta(velocidadPromedio) ==
  IF RatLE(RatInt(10), velocidadPromedio) THEN "CRITICO"
  ELSE IF RatLE(RatInt(5), velocidadPromedio) THEN "ALTO"
  ELSE IF RatLE(RatInt(2), velocidadPromedio) THEN "MEDIO"
  ELSE "BAJO"

\* the loop of generarResumenComparativo: r holds velocidadPromedio,
\* velocidadMaxima, velocidadMasAlta, enfermedadMasRapida, distritosAfectados
RECURSIVE Acumular(_, _, _)
Acumular(r, analisis, i) ==
  IF i > Len(analisis) THEN r
  ELSE
    LET a == analisis[i]
        nuevos == SelectSeq([k \in 1..Len(a.DistritosAfectados) |->
                               a.DistritosAfectados[k].Distrito],
                            LAMBDA d : d \notin Rango(r.distritosAfectados))
    IN  Acumular(
          [velocidadPromedio |-> RatAdd(r.velocidadPromedio, a.VelocidadPromedio),
           velocidadMaxima |->
             IF RatLT(r.velocidadMaxima, a.VelocidadMaxima)
             THEN a.VelocidadMaxima ELSE r.velocidadMaxima,
           velocidadMasAlta |->
             IF RatLT(r.velocidadMasAlta, a.VelocidadPromedio)
             THEN a.VelocidadPromedio ELSE r.velocidadMasAlta,
           enfermedadMasRapida |->
             IF RatLT(r.velocidadMasAlta, a.VelocidadPromedio)
             THEN a.Enfermedad ELSE r.enfermedadMasRapida,
           distritosAfectados |-> r.distritosAfectados \o nuevos],
          analisis, i + 1)

ErrSinDatos == "No hay datos suficientes para comparar"

\* the map returned, r being what the loop has left and n = len(analisis)
ResumenDe(r, n) ==
  [total_enfermedades_analizadas |-> n,
   velocidad_promedio_general |->
     Rat(RatRound(RatMul(RatDiv(r.velocidadPromedio, RatInt(n)), RatInt(100))),
         100),
   velocidad_maxima_registrada |-> r.velocidadMaxima,
   enfermedad_propagacion_rapida |-> r.enfermedadMasRapida,
   total_distritos_afectados |-> Len(r.distritosAfectados),
   distritos_con_casos |-> r.distritosAfectados,
   nivel_alerta_general |->
     determinarNivelAlerta(RatDiv(r.velocidadPromedio, RatInt(n)))]

generarResumenComparativo(analisis) ==
  IF Len(analisis) = 0 THEN [error |-> ErrSinDatos]
  ELSE ResumenDe(Acumular([velocidadPromedio |-> RatInt(0),
                           velocidadMaxima |-> RatInt(0),
                           velocidadMasAlta |-> RatInt(0),
                           enfermedadMasRapida |-> "",
                           distritosAfectados |-> <<>>], analisis, 1),
                 Len(analisis))

\* comparacion["resumen_comparativo"] = resumen, and the response
ResponderComparacion(llamadas, dias) ==
  /\ respuesta' =
       [tipo |-> "http", status |-> 200, code |-> "",
        data |-> ("resumen_comparativo" :>
                    generarResumenComparativo(AnalisisCompletos(llamadas)))
                   @@ Asignar(<<>>, llamadas, 1)]
  /\ locales' = [tipo |-> "comparacion", diasAnalisis |-> dias,
                 llamadas |-> llamadas]
  /\ densidadPoblacionalSantaCruz' = RegistroLeido(densidadPoblacionalSantaCruz)

RechazarComparacion(code) ==
  /\ respuesta' = [tipo |-> "http", status |-> 400, code |-> code, data |-> Nil]
  /\ locales' = [tipo |-> "none"]
  /\ UNCHANGED densidadPoblacionalSantaCruz

HandlerGetSpreadComparison ==
  /\ respuesta.tipo = "none"
  /\ \E enfermedadesStr \in ConsultasComparacion \cup {""},
        diasStr \in DiasSolicitud :
       IF enfermedadesStr = "" THEN RechazarComparacion("MISSING_PARAMETER")
       ELSE IF Atoi(diasStr).err \/ Atoi(diasStr).n < 7 \/ Atoi(diasStr).n > 365
       THEN RechazarComparacion("INVALID_PARAMETER")
       ELSE IF Len(Split(enfermedadesStr)) < 2
       THEN RechazarComparacion("INSUFFICIENT_DATA")
       ELSE \E sorteos \in Sorteos(Len(Split(enfermedadesStr))) :
              ResponderComparacion(
                Llamadas(Split(enfermedadesStr), Atoi(diasStr).n, sorteos),
                Atoi(diasStr).n)
  /\ UNCHANGED <<historial, invocaciones>>

InitComparacion ==
  /\ historial \in {TablaBrote, TablaBroteVecino}
  /\ densidadPoblacionalSantaCruz = RegistroInicial
  /\ respuesta = [tipo |-> "none"]
  /\ locales = [tipo |-> "none"]
  /\ invocaciones = SinInvocaciones

NextComparacion ==
  \/ HandlerGetSpreadComparison
  \/ FinSolicitud

SpecComparacion == InitComparacion /\ [][NextComparacion]_vars

-----------------------------------------------------------------------------
(* What a state shows of the last invocation *)

\* the service was invoked (directly or by the handler) and has returned
Invocado == locales.tipo = "analisis"

\* the invocation returned an analysis and a nil error
Exito ==
  \/ respuesta.tipo = "servicio" /\ respuesta.err = ""
  \/ respuesta.tipo = "http" /\ respuesta.status = 200

\* the analysis it returned (when Exito)
Res == IF respuesta.tipo = "servicio" THEN respuesta.resultado ELSE respuesta.data

\* the rows of the table the invocation had to count, read off the table:
\* the disease whatever its case, the date within the window (a date stands
\* for its midnight)
EnVentana(r) ==
  /\ Lower(r.enfermedad) = Lower(locales.enfermedad)
  /\ r.fecha <= locales.fechaFin[1]
  /\ \/ r.fecha > locales.fechaFin[1] - locales.diasAnalisis
     \/ /\ r.fecha = locales.fechaFin[1] - locales.diasAnalisis
        /\ locales.fechaFin[2] = 0

FilasEnVentana == {r \in DOMAIN historial : EnVentana(r)}

-----------------------------------------------------------------------------
(* Properties *)

\* C1: when no row of the disease falls in the window, the service returns
\* the no-data error and a nil result (the handler: status 500 and no data),
\* never an analysis, empty or zero-valued.
C1_NoDataError ==
  (Invocado /\ FilasEnVentana = {}) =>
    /\ respuesta.tipo = "servicio" =>
         respuesta.err = ErrNoData /\ respuesta.resultado = Nil
    /\ respuesta.tipo = "http" =>
         respuesta.status = 500 /\ respuesta.data = Nil

\* a direct call that found no row has returned
C1_Witness ==
  /\ Invocado
  /\ FilasEnVentana = {}
  /\ respuesta.tipo = "servicio"
  /\ respuesta.err = ErrNoData

\* C2: every route of a returned analysis has 0 < DiasTransicion <= 14 and
\* leads to a district of the Conectividad list of its origin's registry
\* entry (the list of the origin; the reverse listing does not count).
C2_RouteValidity ==
  Exito =>
    \A k \in 1..Len(Res.RutasPropagacion) :
      LET ruta == Res.RutasPropagacion[k]
      IN  /\ 0 < ruta.DiasTransicion
          /\ ruta.DiasTransicion <= 14
          /\ ruta.DistritoOrigen \in DOMAIN densidadPoblacionalSantaCruz
          /\ ruta.DistritoDestino \in
               Rango(densidadPoblacionalSantaCruz[ruta.DistritoOrigen].Conectividad)

\* an analysis with a route at the limit of 14 days has been returned
C2_Witness ==
  /\ Exito
  /\ \E k \in 1..Len(Res.RutasPropagacion) :
       Res.RutasPropagacion[k].DiasTransicion = 14

\* C3: a returned analysis holds no prediction for a district whose
\* TotalCasos in DistritosAfectados is 5 or more.
C3_NoPredictionFromFiveCases ==
  Exito =>
    \A k \in 1..Len(Res.PredictedSpread), i \in 1..Len(Res.DistritosAfectados) :
      Res.DistritosAfectados[i].Distrito = Res.PredictedSpread[k].Distrito
        => Res.DistritosAfectados[i].TotalCasos < 5

\* an analysis has been returned in which a district of the registry has 5
\* cases or more and, of the districts of the registry, it alone is not
\* predicted
C3_Witness ==
  /\ Exito
  /\ \E i \in 1..Len(Res.DistritosAfectados) :
       /\ Res.DistritosAfectados[i].Distrito \in DOMAIN densidadPoblacionalSantaCruz
       /\ Res.DistritosAfectados[i].TotalCasos >= 5
       /\ {Res.PredictedSpread[k].Distrito : k \in 1..Len(Res.PredictedSpread)}
            = DOMAIN densidadPoblacionalSantaCruz
                \ {Res.DistritosAfectados[i].Distrito}

\* C4: the Probabilidad of every prediction of a returned analysis lies in
\* [0, 100] (VelocidadPromedio and FactorDensidad are never negative).
C4_ProbabilityRange ==
  Exito =>
    /\ RatLE(RatInt(0), Res.VelocidadPromedio)
    /\ RatLE(RatInt(0), Res.FactorDensidad)
    /\ \A k \in 1..Len(Res.PredictedSpread) :
         /\ RatLE(RatInt(0), Res.PredictedSpread[k].Probabilidad)
         /\ RatLE(Res.PredictedSpread[k].Probabilidad, RatInt(100))

\* an analysis has been returned with a prediction at the cap of 100 and
\* another one below it
C4_Witness ==
  /\ Exito
  /\ \E k, l \in 1..Len(Res.PredictedSpread) :
       /\ Res.PredictedSpread[k].Probabilidad = RatInt(100)
       /\ RatLT(Res.PredictedSpread[l].Probabilidad, RatInt(100))

\* C5: in a returned analysis of a window the handler admits, VelocidadPromedio
\* and VelocidadMaxima are not negative and VelocidadPromedio is at most
\* VelocidadMaxima, however the cases spread over the dates of the window.
C5_AverageAtMostPeak ==
  (Exito /\ Res.PeriodoAnalisis.DiasTotales >= 7
         /\ Res.PeriodoAnalisis.DiasTotales <= 365) =>
    /\ RatLE(RatInt(0), Res.VelocidadPromedio)
    /\ RatLE(RatInt(0), Res.VelocidadMaxima)
    /\ RatLE(Res.VelocidadPromedio, Res.VelocidadMaxima)

\* C6: for the same table, registry, disease, window and clock, every run of
\* the analysis returns the analysis a direct call has returned, the order of
\* DistritosAfectados, RutasPropagacion and PredictedSpread included, whatever
\* the order in which the maps are ranged over.
C6_Deterministic ==
  (respuesta.tipo = "servicio" /\ respuesta.err = "") =>
    \A o1 \in OffsetsAfectados(locales.enfermedad, locales.diasAnalisis,
                               locales.fechaFin),
       o2 \in OffsetsRegistro :
      AnalyzeSpreadVelocity(historial, densidadPoblacionalSantaCruz,
                            locales.enfermedad, locales.diasAnalisis,
                            locales.fechaFin, locales.fechaFin, o1, o2).resultado
        = respuesta.resultado

\* C7: the TotalCasos of the aggregates add up to the number of rows of the
\* disease in the window, every such row is counted in exactly one aggregate,
\* the one of its date and district, and an aggregate counts nothing else.
C7_AggregationComplete ==
  Invocado =>
    LET casos == locales.casosTemporales
        Grupo(i) == {r \in FilasEnVentana : /\ r.fecha = casos[i].Fecha
                                            /\ r.distrito = casos[i].Distrito}
    IN  /\ SumSeq([i \in 1..Len(casos) |-> casos[i].TotalCasos])
             = SumaFilas(historial, FilasEnVentana)
        /\ \A r \in FilasEnVentana :
             Cardinality({i \in 1..Len(casos) : r \in Grupo(i)}) = 1
        /\ \A i \in 1..Len(casos) :
             /\ Grupo(i) # {}
             /\ casos[i].TotalCasos = SumaFilas(historial, Grupo(i))

\* the query has returned two aggregates, one of them of several rows, and
\* has left rows of the table out
C7_Witness ==
  /\ Invocado
  /\ Len(locales.casosTemporales) = 2
  /\ \E i \in 1..2 : locales.casosTemporales[i].TotalCasos >= 2
  /\ DOMAIN historial \ FilasEnVentana # {}

\* the date of the first row of the district among the rows in the window
PrimeraFecha(distrito) ==
  LET fechas == {r.fecha : r \in {x \in FilasEnVentana : x.distrito = distrito}}
  IN  CHOOSE f \in fechas : \A g \in fechas : f <= g

\* C8: the origin of every route of a returned analysis has its first case
\* on a strictly earlier date than the destination has (so that no route
\* joins two districts whose first cases are of the same date).
C8_StrictTemporalOrder ==
  Exito =>
    \A k \in 1..Len(Res.RutasPropagacion) :
      LET ruta == Res.RutasPropagacion[k]
      IN  /\ \E r \in FilasEnVentana : r.distrito = ruta.DistritoOrigen
          /\ \E r \in FilasEnVentana : r.distrito = ruta.DistritoDestino
          /\ PrimeraFecha(ruta.DistritoOrigen) < PrimeraFecha(ruta.DistritoDestino)

\* an analysis has been returned in which two adjacent districts have their
\* first case on the same date, and no route
C8_Witness ==
  /\ Exito
  /\ \E i, j \in 1..Len(Res.DistritosAfectados) :
       LET a == Res.DistritosAfectados[i]
           b == Res.DistritosAfectados[j]
       IN  /\ a.Distrito \in DOMAIN densidadPoblacionalSantaCruz
           /\ b.Distrito \in
                Rango(densidadPoblacionalSantaCruz[a.Distrito].Conectividad)
           /\ a.PrimerCaso = b.PrimerCaso
  /\ Res.RutasPropagacion = <<>>

\* the districts of the rows in the window that the registry does not know
Desconocidos ==
  {r.distrito : r \in FilasEnVentana} \ DOMAIN densidadPoblacionalSantaCruz

\* the tier of a district of density 0: twice its local velocity against the
\* thresholds 15, 10 and 5
NivelPorVelocidad(velocidad) ==
  IF RatLE(Rat(15, 2), velocidad) THEN "CRITICO"
  ELSE IF RatLE(RatInt(5), velocidad) THEN "ALTO"
  ELSE IF RatLE(Rat(5, 2), velocidad) THEN "MEDIO"
  ELSE "BAJO"

\* C9: when rows in the window name a district the registry does not know,
\* the analysis is returned all the same; the district is in
\* DistritosAfectados once, with DensidadHab 0 and the tier its VelocidadLocal
\* alone gives; it is the origin of no route and has no prediction.
C9_UnknownDistrictTolerated ==
  (Invocado /\ Desconocidos # {}) =>
    /\ Exito
    /\ \A u \in Desconocidos :
         /\ Cardinality({i \in 1..Len(Res.DistritosAfectados) :
                           Res.DistritosAfectados[i].Distrito = u}) = 1
         /\ \A i \in 1..Len(Res.DistritosAfectados) :
              Res.DistritosAfectados[i].Distrito = u =>
                /\ Res.DistritosAfectados[i].DensidadHab = 0
                /\ Res.DistritosAfectados[i].RiesgoExpansion =
                     NivelPorVelocidad(Res.DistritosAfectados[i].VelocidadLocal)
         /\ \A k \in 1..Len(Res.RutasPropagacion) :
              Res.RutasPropagacion[k].DistritoOrigen # u
         /\ \A k \in 1..Len(Res.PredictedSpread) :
              Res.PredictedSpread[k].Distrito # u

\* an analysis has been returned in which a district the registry does not
\* know has a tier above the lowest and its first case before the first case
\* of a district of the registry
C9_Witness ==
  /\ Exito
  /\ \E i, j \in 1..Len(Res.DistritosAfectados) :
       LET a == Res.DistritosAfectados[i]
           b == Res.DistritosAfectados[j]
       IN  /\ a.Distrito \in Desconocidos
           /\ a.RiesgoExpansion # "BAJO"
           /\ b.Distrito \in DOMAIN densidadPoblacionalSantaCruz
           /\ a.PrimerCaso < b.PrimerCaso

\* C10: a direct call of the service with diasAnalisis outside [7, 365]
\* returns an error and no analysis.
C10_CoreRejectsWindow ==
  (respuesta.tipo = "servicio"
     /\ (locales.diasAnalisis < 7 \/ locales.diasAnalisis > 365)) =>
    /\ respuesta.resultado = Nil
    /\ respuesta.err # ""

\* C11: the list analizarDistritosAfectados returns is in descending order of
\* TotalCasos, and districts of equal TotalCasos follow each other in
\* ascending order of name.
C11_AffectedOrder ==
  Invocado =>
    \A i \in 1..(Len(locales.distritosAfectados) - 1) :
      LET a == locales.distritosAfectados[i]
          b == locales.distritosAfectados[i + 1]
      IN  \/ a.TotalCasos > b.TotalCasos
          \/ /\ a.TotalCasos = b.TotalCasos
             /\ RangoDistrito(a.Distrito) < RangoDistrito(b.Distrito)

\* C12: in PredictedSpread every prediction has a Probabilidad at least that
\* of the prediction that follows it.
C12_PredictionOrder ==
  Exito =>
    \A k \in 1..(Len(Res.PredictedSpread) - 1) :
      RatLE(Res.PredictedSpread[k + 1].Probabilidad,
            Res.PredictedSpread[k].Probabilidad)

\* an analysis has been returned whose predictions are of three different
\* probabilities at least
C12_Witness ==
  /\ Exito
  /\ Cardinality({Res.PredictedSpread[k].Probabilidad :
                    k \in 1..Len(Res.PredictedSpread)}) >= 3

\* C13: for every ordered pair of affected districts of which the second is
\* in the Conectividad list of the first and has its first case 1 to 14 days
\* after the first's, RutasPropagacion holds exactly one route from the first
\* to the second, with that number of days; and no two routes have the same
\* origin and destination.
C13_RouteCompleteness ==
  Exito =>
    LET da    == Res.DistritosAfectados
        rutas == Res.RutasPropagacion
    IN  /\ \A i, j \in 1..Len(da) :
             (/\ da[i].Distrito \in DOMAIN densidadPoblacionalSantaCruz
              /\ da[j].Distrito \in
                   Rango(densidadPoblacionalSantaCruz[da[i].Distrito].Conectividad)
              /\ da[j].PrimerCaso - da[i].PrimerCaso > 0
              /\ da[j].PrimerCaso - da[i].PrimerCaso <= 14)
             => Cardinality({k \in 1..Len(rutas) :
                   /\ rutas[k].DistritoOrigen = da[i].Distrito
                   /\ rutas[k].DistritoDestino = da[j].Distrito
                   /\ rutas[k].DiasTransicion
                        = da[j].PrimerCaso - da[i].PrimerCaso}) = 1
        /\ \A k, l \in 1..Len(rutas) :
             (/\ rutas[k].DistritoOrigen = rutas[l].DistritoOrigen
              /\ rutas[k].DistritoDestino = rutas[l].DistritoDestino) => k = l

\* an analysis has been returned in which each of two affected districts is
\* in the Conectividad list of the other, and the only route is the one from
\* the earlier to the later, 14 days apart
C13_Witness ==
  /\ Exito
  /\ Len(Res.RutasPropagacion) = 1
  /\ Res.RutasPropagacion[1].DiasTransicion = 14
  /\ Res.RutasPropagacion[1].DistritoOrigen \in
       Rango(densidadPoblacionalSantaCruz[
               Res.RutasPropagacion[1].DistritoDestino].Conectividad)

\* C14: whatever invocations have returned, with an analysis or with an
\* error, the registry holds for every district the Habitantes, AreaKm2,
\* Densidad, TipoZona and Conectividad it held at startup.
C14_RegistryNeverMutated ==
  /\ DOMAIN densidadPoblacionalSantaCruz = DOMAIN RegistroInicial
  /\ \A d \in DOMAIN RegistroInicial :
       /\ densidadPoblacionalSantaCruz[d].Habitantes = RegistroInicial[d].Habitantes
       /\ densidadPoblacionalSantaCruz[d].AreaKm2 = RegistroInicial[d].AreaKm2
       /\ densidadPoblacionalSantaCruz[d].Densidad = RegistroInicial[d].Densidad
       /\ densidadPoblacionalSantaCruz[d].TipoZona = RegistroInicial[d].TipoZona
       /\ densidadPoblacionalSantaCruz[d].Conectividad
            = RegistroInicial[d].Conectividad

\* an invocation has returned an analysis with a route and predictions: both
\* readers of the registry have run
C14_Witness ==
  /\ Exito
  /\ Res.RutasPropagacion # <<>>
  /\ Res.PredictedSpread # <<>>
  /\ densidadPoblacionalSantaCruz = RegistroInicial

\* the aggregates s in the opposite order
Reverso(s) == [i \in 1..Len(s) |-> s[Len(s) + 1 - i]]

\* orders in which the aggregates s may arrive: every rotation of s and of
\* its reverse
Llegadas(s) ==
  {Rotar(s, o) : o \in Offsets(s)} \cup {Rotar(Reverso(s), o) : o \in Offsets(s)}

\* da holds one entry for every district of the aggregates casos and no other,
\* with the earliest date, the latest date and the sum of TotalCasos of the
\* aggregates of the district
ResumeCasos(da, casos) ==
  /\ {da[i].Distrito : i \in 1..Len(da)}
       = {casos[k].Distrito : k \in 1..Len(casos)}
  /\ \A i, j \in 1..Len(da) : da[i].Distrito = da[j].Distrito => i = j
  /\ \A i \in 1..Len(da) :
       LET del == {k \in 1..Len(casos) : casos[k].Distrito = da[i].Distrito}
       IN  /\ \E k \in del : casos[k].Fecha = da[i].PrimerCaso
           /\ \A k \in del : da[i].PrimerCaso <= casos[k].Fecha
           /\ \E k \in del : casos[k].Fecha = da[i].UltimoCaso
           /\ \A k \in del : casos[k].Fecha <= da[i].UltimoCaso
           /\ da[i].PrimerCaso <= da[i].UltimoCaso
           /\ da[i].TotalCasos
                = SumSeq([k \in 1..Len(casos) |->
                            IF k \in del THEN casos[k].TotalCasos ELSE 0])

\* C16: analizarDistritosAfectados returns exactly one entry per district of
\* the aggregates, with PrimerCaso the earliest date, UltimoCaso the latest
\* and TotalCasos the sum over the aggregates of the district; so it does for
\* the aggregates the query returned and for the same aggregates arriving in
\* another order.
C16_SummaryPerDistrict ==
  (Invocado /\ locales.casosTemporales # <<>>) =>
    /\ ResumeCasos(locales.distritosAfectados, locales.casosTemporales)
    /\ \A llegada \in Llegadas(locales.casosTemporales) :
         \A o \in Offsets(locales.distritosAfectados) :
           ResumeCasos(analizarDistritosAfectados(
                         llegada, densidadPoblacionalSantaCruz, o),
                       locales.casosTemporales)

\* the aggregates of an invocation hold a district on several dates, with
\* several cases on one of them
C16_Witness ==
  /\ Invocado
  /\ Len(locales.casosTemporales) > Len(locales.distritosAfectados)
  /\ \E i \in 1..Len(locales.distritosAfectados) :
       /\ locales.distritosAfectados[i].PrimerCaso
            < locales.distritosAfectados[i].UltimoCaso
       /\ locales.distritosAfectados[i].TotalCasos > 2

\* C17: for every affected district the days from PrimerCaso to UltimoCaso,
\* both counted, are at least 1, VelocidadLocal is TotalCasos divided by that
\* number of days, and it is more than 0.
C17_LocalVelocity ==
  Invocado =>
    \A i \in 1..Len(locales.distritosAfectados) :
      LET d    == locales.distritosAfectados[i]
          dias == (d.UltimoCaso - d.PrimerCaso) + 1
      IN  /\ dias >= 1
          /\ d.TotalCasos >= 1
          /\ d.VelocidadLocal[2] > 0
          /\ d.VelocidadLocal[1] * dias = d.TotalCasos * d.VelocidadLocal[2]
          /\ d.VelocidadLocal[1] > 0

\* an invocation has found a district with all cases on one day and a
\* district with cases on several days, whose velocity is no whole number
C17_Witness ==
  /\ Invocado
  /\ \E i \in 1..Len(locales.distritosAfectados) :
       /\ locales.distritosAfectados[i].PrimerCaso
            < locales.distritosAfectados[i].UltimoCaso
       /\ locales.distritosAfectados[i].VelocidadLocal[2] > 1

\* the rank of a tier
RangoNivel(nivel) ==
  CASE nivel = "BAJO" -> 0 [] nivel = "MEDIO" -> 1
    [] nivel = "ALTO" -> 2 [] nivel = "CRITICO" -> 3

\* score >= umbral for score = DensidadHab / 1000 + 2 * VelocidadLocal, in
\* whole numbers
ScoreDesde(d, umbral) ==
  d.DensidadHab * d.VelocidadLocal[2] + 2000 * d.VelocidadLocal[1]
    >= 1000 * umbral * d.VelocidadLocal[2]

\* C18: the RiesgoExpansion of every affected district is CRITICO iff
\* score >= 15, ALTO iff 10 <= score < 15, MEDIO iff 5 <= score < 10 and BAJO
\* iff score < 5, for score = DensidadHab / 1000 + 2 * VelocidadLocal; and of
\* two affected districts the one with neither the lower density nor the
\* lower velocity has no lower tier.
C18_RiskTier ==
  Invocado =>
    LET da == locales.distritosAfectados
    IN  /\ \A i \in 1..Len(da) :
             /\ da[i].RiesgoExpansion = "CRITICO" <=> ScoreDesde(da[i], 15)
             /\ da[i].RiesgoExpansion = "ALTO" <=>
                  (ScoreDesde(da[i], 10) /\ ~ScoreDesde(da[i], 15))
             /\ da[i].RiesgoExpansion = "MEDIO" <=>
                  (ScoreDesde(da[i], 5) /\ ~ScoreDesde(da[i], 10))
             /\ da[i].RiesgoExpansion = "BAJO" <=> ~ScoreDesde(da[i], 5)
        /\ \A i, j \in 1..Len(da) :
             (/\ da[i].DensidadHab <= da[j].DensidadHab
              /\ RatLE(da[i].VelocidadLocal, da[j].VelocidadLocal))
             => RangoNivel(da[i].RiesgoExpansion)
                  <= RangoNivel(da[j].RiesgoExpansion)

\* an invocation has found a district at the highest tier and one at the
\* lowest
C18_Witness ==
  /\ Invocado
  /\ \E i, j \in 1..Len(locales.distritosAfectados) :
       /\ locales.distritosAfectados[i].RiesgoExpansion = "CRITICO"
       /\ locales.distritosAfectados[j].RiesgoExpansion = "BAJO"

\* casosActuales of a district in a returned analysis
CasosEnResultado(distrito) ==
  SumSeq([i \in 1..Len(Res.DistritosAfectados) |->
            IF Res.DistritosAfectados[i].Distrito = distrito
            THEN Res.DistritosAfectados[i].TotalCasos ELSE 0])

\* C19: a returned analysis holds exactly one prediction for every district
\* of the registry with less than 5 cases (0 when it is not affected), and no
\* prediction for a name that is no key of the registry.
C19_PredictionCoverage ==
  Exito =>
    /\ \A d \in DOMAIN densidadPoblacionalSantaCruz :
         CasosEnResultado(d) < 5 =>
           Cardinality({k \in 1..Len(Res.PredictedSpread) :
                          Res.PredictedSpread[k].Distrito = d}) = 1
    /\ \A k \in 1..Len(Res.PredictedSpread) :
         Res.PredictedSpread[k].Distrito \in DOMAIN densidadPoblacionalSantaCruz

\* an analysis has been returned with an affected district of the registry of
\* less than 5 cases, which is predicted, and an affected district the registry
\* does not know
C19_Witness ==
  /\ Exito
  /\ \E i, j \in 1..Len(Res.DistritosAfectados) :
       /\ Res.DistritosAfectados[i].Distrito \in DOMAIN densidadPoblacionalSantaCruz
       /\ Res.DistritosAfectados[i].TotalCasos < 5
       /\ \E k \in 1..Len(Res.PredictedSpread) :
            Res.PredictedSpread[k].Distrito = Res.DistritosAfectados[i].Distrito
       /\ Res.DistritosAfectados[j].Distrito
            \notin DOMAIN densidadPoblacionalSantaCruz

\* C20: the NivelRiesgo of every prediction of a returned analysis is the one
\* of the Probabilidad it carries (two decimals): CRITICO iff it is at least
\* 80, ALTO iff at least 60 and less than 80, MEDIO iff at least 40 and less
\* than 60, BAJO iff less than 40.
C20_RiskLevelOfReported ==
  Exito =>
    \A k \in 1..Len(Res.PredictedSpread) :
      LET p == Res.PredictedSpread[k]
      IN  /\ p.NivelRiesgo = "CRITICO" <=> RatLE(RatInt(80), p.Probabilidad)
          /\ p.NivelRiesgo = "ALTO" <=>
               (RatLE(RatInt(60), p.Probabilidad) /\ RatLT(p.Probabilidad, RatInt(80)))
          /\ p.NivelRiesgo = "MEDIO" <=>
               (RatLE(RatInt(40), p.Probabilidad) /\ RatLT(p.Probabilidad, RatInt(60)))
          /\ p.NivelRiesgo = "BAJO" <=> RatLT(p.Probabilidad, RatInt(40))

\* what invocation p would have computed running alone on the table and the
\* registry, with the arguments, the clock readings and the range offsets
\* drawn for it
SoloDe(m) ==
  AnalyzeSpreadVelocity(historial, RegistroInicial, m.enfermedad,
                        m.diasAnalisis, m.fechaFin, m.ahora, m.offsetAfectados,
                        m.offsetRegistro)

\* the statements after which a local variable holds its value
TrasConsulta == {"distritos", "rutas", "velocidades", "factor", "predicciones", "recomendaciones", "resultado"}

TrasRutas == {"velocidades", "factor", "predicciones", "recomendaciones", "resultado"}

TrasVelocidades == {"factor", "predicciones", "recomendaciones", "resultado"}

TrasFactor == {"predicciones", "recomendaciones", "resultado"}

TrasPredicciones == {"recomendaciones", "resultado"}

\* the frame m agrees with a, what the invocation computes running alone
MarcoAislado(m, a) ==
  /\ m.pc = "libre" => m = MarcoLibre
  /\ m.pc = "retornado" =>
       m.retorno = (IF a.err # "" THEN [resultado |-> Nil, err |-> a.err]
                    ELSE [resultado |-> a.resultado, err |-> ""])
  /\ m.pc \in TrasConsulta =>
       /\ a.err = ""
       /\ m.casosTemporales = a.casosTemporales
  /\ m.pc = "rutas" => m.distritosAfectados = a.distritosAnalizados
  /\ m.pc \in TrasRutas =>
       /\ m.distritosAfectados = a.resultado.DistritosAfectados
       /\ m.rutasPropagacion = a.resultado.RutasPropagacion
  /\ m.pc \in TrasVelocidades =>
       /\ m.velocidadPromedio = a.resultado.VelocidadPromedio
       /\ m.velocidadMaxima = a.resultado.VelocidadMaxima
  /\ m.pc \in TrasFactor => m.factorDensidad = a.resultado.FactorDensidad
  /\ m.pc \in TrasPredicciones =>
       m.predicciones = a.resultado.PredictedSpread
  /\ m.pc = "resultado" =>
       m.recomendaciones = a.resultado.RecomendacionesAlert

\* C15: in every interleaving of the statements of concurrent invocations,
\* each invocation holds in its local variables, and returns, what it would
\* compute running alone on the same table, arguments, clock readings and
\* range offsets, whatever the other invocation is doing; the registry, the
\* only state they share, stays as it was loaded.
C15_Isolation ==
  /\ densidadPoblacionalSantaCruz = RegistroInicial
  /\ \A p \in Invocaciones :
       MarcoAislado(invocaciones[p], SoloDe(invocaciones[p]))

\* two invocations with different windows, and different cases, are in
\* flight at once: one has its predictions, the other is about to compute
\* its routes or its velocities
C15_Witness ==
  \E p, q \in Invocaciones :
    /\ p # q
    /\ invocaciones[p].pc \in TrasPredicciones
    /\ invocaciones[q].pc \in {"rutas", "velocidades"}
    /\ invocaciones[p].diasAnalisis # invocaciones[q].diasAnalisis
    /\ invocaciones[p].casosTemporales # invocaciones[q].casosTemporales
    /\ Len(invocaciones[p].predicciones) > 0

\* C21: every prediction of a returned analysis has CasosPredichos equal to the
\* whole part of VelocidadPromedio times the Probabilidad it carries over 100,
\* plus the cases of its district in the analysis; so it is at least those
\* cases.
C21_PredictedCases ==
  Exito =>
    \A k \in 1..Len(Res.PredictedSpread) :
      LET p == Res.PredictedSpread[k]
      IN  /\ p.CasosPredichos =
               RatTrunc(RatDiv(RatMul(Res.VelocidadPromedio, p.Probabilidad),
                               RatInt(100)))
                 + CasosEnResultado(p.Distrito)
          /\ p.CasosPredichos >= CasosEnResultado(p.Distrito)

\* the rows of the disease in the window whose date is f
FilasDelDia(f) == {r \in FilasEnVentana : r.fecha = f}

\* C22: in a returned analysis VelocidadPromedio is the number of cases of the
\* aggregates over diasAnalisis, the window the caller gave, and
\* VelocidadMaxima is the largest number of cases of one calendar date, the
\* cases of all the districts of that date taken together.
C22_Velocities ==
  Exito =>
    /\ Res.VelocidadPromedio =
         Rat(SumSeq([i \in 1..Len(locales.casosTemporales) |->
                       locales.casosTemporales[i].TotalCasos]),
             locales.diasAnalisis)
    /\ \E r \in FilasEnVentana :
         Res.VelocidadMaxima = RatInt(SumaFilas(historial, FilasDelDia(r.fecha)))
    /\ \A r \in FilasEnVentana :
         RatLE(RatInt(SumaFilas(historial, FilasDelDia(r.fecha))),
               Res.VelocidadMaxima)

\* an analysis has been returned whose aggregates hold two districts on one
\* date and a third aggregate on another date, the dates spanning fewer days
\* than the window
C22_Witness ==
  /\ Exito
  /\ \E i, j, k \in 1..Len(locales.casosTemporales) :
       /\ i # j
       /\ locales.casosTemporales[i].Fecha = locales.casosTemporales[j].Fecha
       /\ locales.casosTemporales[k].Fecha < locales.casosTemporales[i].Fecha
       /\ locales.casosTemporales[i].Fecha - locales.casosTemporales[k].Fecha + 1
            < locales.diasAnalisis
       /\ RatLT(RatInt(locales.casosTemporales[i].TotalCasos), Res.VelocidadMaxima)
       /\ RatLT(RatInt(locales.casosTemporales[j].TotalCasos), Res.VelocidadMaxima)

\* the distance of the coordenadas table between the centres of two districts
DistanciaEntreCentros(d1, d2) ==
  IF d1 = d2 THEN 0
  ELSE (CHOOSE h \in Haversine : {h[1], h[2]} = {d1, d2})[3]

\* C23: every route of a returned analysis carries as FechaPropagacion the
\* date of the first case of its destination in the window, as DiasTransicion
\* the days from the first case of its origin to it, more than 0, as
\* DistanciaKm the distance between the centres of the two districts, and as
\* VelocidadKmDia that distance over those days.
C23_RouteFields ==
  Exito =>
    \A k \in 1..Len(Res.RutasPropagacion) :
      LET ruta == Res.RutasPropagacion[k]
      IN  /\ ruta.FechaPropagacion = PrimeraFecha(ruta.DistritoDestino)
          /\ ruta.DiasTransicion =
               PrimeraFecha(ruta.DistritoDestino) - PrimeraFecha(ruta.DistritoOrigen)
          /\ ruta.DiasTransicion > 0
          /\ ruta.DistanciaKm =
               DistanciaEntreCentros(ruta.DistritoOrigen, ruta.DistritoDestino)
          /\ ruta.VelocidadKmDia = Rat(ruta.DistanciaKm, ruta.DiasTransicion)

\* an analysis has been returned with a route of several days between two
\* districts whose centres are apart
C23_Witness ==
  /\ Exito
  /\ \E k \in 1..Len(Res.RutasPropagacion) :
       /\ Res.RutasPropagacion[k].DiasTransicion > 1
       /\ Res.RutasPropagacion[k].DistanciaKm > 0
       /\ RatLT(Res.RutasPropagacion[k].VelocidadKmDia,
                RatInt(Res.RutasPropagacion[k].DistanciaKm))

\* C24: the aggregates the query returned are in ascending order of date and,
\* within a date, of district name, so that no date and district come twice;
\* an aggregate counts the rows in the window whose district is written
\* exactly as its own, whatever the case in which they write the disease, and
\* every such row has its aggregate.
C24_AggregateOrder ==
  Invocado =>
    LET casos == locales.casosTemporales
    IN  /\ \A i, j \in 1..Len(casos) :
             i < j =>
               \/ casos[i].Fecha < casos[j].Fecha
               \/ /\ casos[i].Fecha = casos[j].Fecha
                  /\ RangoDistrito(casos[i].Distrito) < RangoDistrito(casos[j].Distrito)
        /\ \A i \in 1..Len(casos) :
             casos[i].TotalCasos =
               SumaFilas(historial, {r \in FilasDelDia(casos[i].Fecha) :
                                       r.distrito = casos[i].Distrito})
        /\ \A r \in FilasEnVentana :
             \E i \in 1..Len(casos) :
               casos[i].Fecha = r.fecha /\ casos[i].Distrito = r.distrito

\* the query has returned, for one date, an aggregate of district Norte that
\* counts rows writing the disease in different cases, and after it an
\* aggregate of district norte; an aggregate of an earlier date comes first
C24_Witness ==
  /\ Invocado
  /\ \E i, j, k \in 1..Len(locales.casosTemporales) :
       /\ k < i /\ i < j
       /\ locales.casosTemporales[k].Fecha < locales.casosTemporales[i].Fecha
       /\ locales.casosTemporales[i].Fecha = locales.casosTemporales[j].Fecha
       /\ locales.casosTemporales[i].Distrito = "Norte"
       /\ locales.casosTemporales[j].Distrito = "norte"
       /\ \E r1, r2 \in FilasEnVentana :
            /\ r1.enfermedad # r2.enfermedad
            /\ r1.distrito = "Norte" /\ r2.distrito = "Norte"
            /\ r1.fecha = r2.fecha

\* C25: every prediction of a returned analysis carries as FechaPrediccion the
\* FechaFin of the PeriodoAnalisis of that analysis plus 7 days, the same for
\* all of them, whatever the clock does while the analysis runs.
C25_TargetDate ==
  Exito =>
    \A k \in 1..Len(Res.PredictedSpread) :
      Res.PredictedSpread[k].FechaPrediccion
        = AddDate(Res.PeriodoAnalisis.FechaFin, 7)

\* C26: the DistritosAfectados of a returned analysis is the list
\* analizarDistritosAfectados returned, as calcularRutasPropagacion received
\* it, and so no district in it has fewer cases than the one that follows.
C26_RoutesLeaveListUnchanged ==
  Exito =>
    /\ Res.DistritosAfectados = locales.distritosAfectados
    /\ \A i \in 1..(Len(Res.DistritosAfectados) - 1) :
         Res.DistritosAfectados[i].TotalCasos
           >= Res.DistritosAfectados[i + 1].TotalCasos

\* the routes calcularRutasPropagacion returned, as edges between districts
Aristas(rutas) ==
  {<<rutas[k].DistritoOrigen, rutas[k].DistritoDestino>> : k \in 1..Len(rutas)}

\* the districts reached from those of S along at most n edges of E
RECURSIVE Alcanzables(_, _, _)
Alcanzables(E, S, n) ==
  IF n = 0 THEN S
  ELSE Alcanzables(E, S \cup {e[2] : e \in {x \in E : x[1] \in S}}, n - 1)

\* C27: the routes calcularRutasPropagacion returns have no route from a
\* district to itself, no two routes that join two districts in both
\* directions, and no cycle: following routes from the destination of a route
\* never leads back to its origin; and their ends are districts of the list.
C27_RoutesAcyclic ==
  respuesta.tipo = "rutas" =>
    LET E == Aristas(respuesta.rutas)
    IN  /\ \A e \in E :
             /\ e[1] # e[2]
             /\ <<e[2], e[1]>> \notin E
             /\ e[1] \notin Alcanzables(E, {e[2]}, Cardinality(E))
             /\ {e[1], e[2]} \subseteq
                  {locales.distritos[i].Distrito : i \in 1..Len(locales.distritos)}

\* routes have been returned that lead from a district to a second and from
\* it to a third, the first and the third being connected in the registry
C27_Witness ==
  /\ respuesta.tipo = "rutas"
  /\ \E e, f \in Aristas(respuesta.rutas) :
       /\ e[2] = f[1]
       /\ e[1] \in Rango(densidadPoblacionalSantaCruz[f[2]].Conectividad)

\* the orders in which the entries of s may be supplied
Permutaciones(s) ==
  {[i \in 1..Len(s) |-> s[f[i]]] :
     f \in {g \in [1..Len(s) -> 1..Len(s)] :
              \A i, j \in 1..Len(s) : i # j => g[i] # g[j]}}

\* C28: the set of routes calcularRutasPropagacion returns is the same in
\* whatever order the entries of the list are supplied, and so in whatever
\* order the sort leaves the entries of equal PrimerCaso.
C28_RoutesOrderIndependent ==
  respuesta.tipo = "rutas" =>
    \A otra \in Permutaciones(locales.distritos) :
      Rango(calcularRutasPropagacion(otra, densidadPoblacionalSantaCruz).rutas)
        = Rango(respuesta.rutas)

\* routes have been returned for a list of three districts, two of them
\* connected and of the same PrimerCaso, supplied in an order that is not
\* the order of their first cases
C28_Witness ==
  /\ respuesta.tipo = "rutas"
  /\ Len(respuesta.rutas) > 0
  /\ Len(locales.distritos) = 3
  /\ locales.distritos # respuesta.distritos
  /\ \E i, j \in 1..3 :
       /\ i # j
       /\ locales.distritos[i].PrimerCaso = locales.distritos[j].PrimerCaso
       /\ locales.distritos[i].Distrito \in DOMAIN densidadPoblacionalSantaCruz
       /\ locales.distritos[j].Distrito \in
            Rango(densidadPoblacionalSantaCruz[locales.distritos[i].Distrito].Conectividad)

\* C29: in a returned analysis the TotalCasos of DistritosAfectados add up to
\* the TotalCasos of the aggregates of the query, and VelocidadPromedio times
\* the days of the window is that same number of cases.
C29_CaseConservation ==
  Exito =>
    /\ SumSeq([i \in 1..Len(Res.DistritosAfectados) |->
                 Res.DistritosAfectados[i].TotalCasos])
         = SumSeq([i \in 1..Len(locales.casosTemporales) |->
                     locales.casosTemporales[i].TotalCasos])
    /\ RatMul(Res.VelocidadPromedio, RatInt(Res.PeriodoAnalisis.DiasTotales))
         = RatInt(SumSeq([i \in 1..Len(locales.casosTemporales) |->
                            locales.casosTemporales[i].TotalCasos]))

\* an analysis has been returned for several districts, one of them with
\* aggregates of several dates, and a number of cases that the days of the
\* window do not divide
C29_Witness ==
  /\ Exito
  /\ Len(Res.DistritosAfectados) >= 2
  /\ Len(locales.casosTemporales) > Len(Res.DistritosAfectados)
  /\ Res.VelocidadPromedio[2] # 1

\* the calls of the comparison that returned an analysis
Logradas == {i \in 1..Len(locales.llamadas) :
               ~locales.llamadas[i].omitida /\ locales.llamadas[i].retorno.err = ""}

\* C30: in the response of a comparison every disease that was analysed has
\* under its name what an analysis of it in this request returned, the
\* analysis or an entry with its error, and each analysis returned what a
\* single analysis of that disease returns whatever the other diseases of the
\* request; the entry resumen_comparativo counts exactly the analyses that
\* succeeded, and is an entry with an error when none did.
C30_ComparisonIndependent ==
  (respuesta.tipo = "http" /\ locales.tipo = "comparacion") =>
    /\ \A i \in 1..Len(locales.llamadas) :
         LET l == locales.llamadas[i]
         IN  ~l.omitida =>
               /\ l.retorno =
                    Invocar(l.enfermedad, locales.diasAnalisis, l.sorteo.fechaFin,
                            l.sorteo.fechaFin, l.sorteo.o1, l.sorteo.o2).retorno
               /\ l.enfermedad \in DOMAIN respuesta.data
               /\ \E j \in 1..Len(locales.llamadas) :
                    /\ ~locales.llamadas[j].omitida
                    /\ locales.llamadas[j].enfermedad = l.enfermedad
                    /\ respuesta.data[l.enfermedad] =
                         (IF locales.llamadas[j].retorno.err # ""
                          THEN [error |-> locales.llamadas[j].retorno.err]
                          ELSE locales.llamadas[j].retorno.resultado)
    /\ "resumen_comparativo" \in DOMAIN respuesta.data
    /\ IF Logradas = {}
       THEN respuesta.data["resumen_comparativo"] = [error |-> ErrSinDatos]
       ELSE respuesta.data["resumen_comparativo"].total_enfermedades_analizadas
              = Cardinality(Logradas)

====
